---- MODULE Spec2Model ----
(***************************************************************************)
(* Model of the trading core of Algo-Trader-Pro: the RiskManager position  *)
(* book (server/trading/risk-manager.ts), the MotifEnsemble weights, the   *)
(* adaptive learning state and the timer-driven TradingBot loop.           *)
(*                                                                         *)
(* Numbers.  Prices and ATRs are whole dollars, quantities are hundredths  *)
(* of a coin (calculatePositionSize floors to 2 decimals), balances, PnL   *)
(* and risk amounts are therefore cents; the fractions the code compares   *)
(* them with (0.1, 1.3, 1.2, 0.01 ...) are compared by cross-multiplying;  *)
(* signals, confidences, motif weights and Q-values are exact fractions    *)
(* n/d, so every comparison is exact.  Position                            *)
(* fields that no operation ever reads back (potentialReward,              *)
(* riskRewardRatio, dynamicStop, lastAtr, trailingStopPrice, highestPrice, *)
(* lowestPrice) are left out of the position record.                       *)
(***************************************************************************)
EXTENDS Integers, Sequences, FiniteSets, TLC

VARIABLES
    portfolio,       \* RiskManager.portfolio: Map in insertion order, as a sequence of positions
    accountBalance,  \* RiskManager.accountBalance
    tradeHistory,    \* RiskManager.tradeHistory
    now,             \* the value Date.now() returned to the last openPosition
    ret,             \* the last call: its name, arguments and return value
    openLog,         \* history: every position as openPosition returned it, indexed by uid
    basis,           \* history: the balance set by the constructor or the last setAccountBalance
    pnlSum,          \* history: sum of the pnl returned by closePosition since basis was set
    realizedQty,     \* history: per uid, the total quantity closePosition realized PnL on
    calls,           \* history: number of calls made from outside so far (on the manager,
                     \* on the engine, stop() on the bot)
    fired,           \* history: the <<uid, level>> checkProfitTargets has returned with shouldClose
    pending,         \* the decisions analyzeAndDecide has returned to callers of the engine
                     \* that have not yet passed them to executeDecision
    weights,         \* MotifEnsemble.weights
    weightUpdates,   \* history: number of MotifEnsemble.updateWeights calls made directly
    successCounts,   \* BayesianLearning.successCounts
    failureCounts,   \* BayesianLearning.failureCounts
    transitions,     \* MarkovChain.transitions, keyed by <<fromState, toState>>
    qValues,         \* QLearning.qValues, keyed by <<state, action>>
    priceHistory,    \* StrategyEngine.priceHistory of the bot's symbol
    isRunning,       \* TradingBot.isRunning
    tradingLoop,     \* TradingBot.tradingLoop: TRUE while the interval timer is armed
    cycles,          \* the executeTradingCycle invocations in progress, oldest first
    decisionsCount,  \* TradingBot.decisionsCount
    tradesCount,     \* TradingBot.tradesCount
    errors,          \* number of errors executeTradingCycle has caught and logged
    engineChecksTargets, \* whether the StrategyEngine of the build has checkProfitTargets
    started,         \* history: number of executeTradingCycle invocations started
    stops,           \* the stop() invocations in progress, oldest first: for each, the
                     \* positions of its snapshot it has still to close
    orphanTimers,    \* interval timers still armed whose handle tradingLoop no longer holds
    isDemoMode,      \* BinanceAPIClient.isDemoMode
    requests,        \* the order calls on the client that await the exchange's answer
    atrMultiplier,   \* RiskManager.atrMultiplier
    otherHistory,    \* StrategyEngine.priceHistory of a second symbol
    fetchLog,        \* history: per symbol, the current prices analyzeAndDecide has
                     \* fetched for it, in arrival order
    ensembleWeights, \* EnsembleStrategyEngine.ensembleWeights, per market and strategy
    motifPatterns,   \* EnsembleStrategyEngine.motifPatterns
    openPositions,   \* MultiStrategyTradingBot.openPositions, in insertion order
    coinsLeft,       \* the top coins the running cycle of MultiStrategyTradingBot has
                     \* still to process
    multiCounts,     \* MultiStrategyTradingBot.decisionsCount and .tradesCount, and the
                     \* number of its cycles started
    agentUpdates     \* RLAgent.qTable, kept as the updateQValue calls it has received

riskVars == <<portfolio, accountBalance, tradeHistory, now, openLog, basis, pnlSum, realizedQty>>

ensembleVars == <<weights, weightUpdates>>

learnVars == <<successCounts, failureCounts, transitions, qValues>>

clientVars == <<isDemoMode, requests>>

configVars == <<engineChecksTargets, atrMultiplier>>

\* state kept for more than one symbol
multiBotVars == <<openPositions, coinsLeft, multiCounts, agentUpdates>>

multiVars == <<otherHistory, fetchLog, ensembleWeights, motifPatterns, multiBotVars>>

loopVars == <<priceHistory, isRunning, tradingLoop, cycles, decisionsCount, tradesCount, errors,
              configVars, started, stops, orphanTimers, multiVars>>

botVars == <<loopVars, clientVars>>

vars == <<riskVars, ret, calls, fired, pending, ensembleVars, learnVars, botVars>>

(***************************************************************************)
(* Bounds of the exploration.                                              *)
(***************************************************************************)
MaxCalls == 3

MaxUpdates == 2

MaxCycles == 3

\* calls of analyzeAndDecide and executeDecision in a behaviour
MaxEngineCalls == 4

(***************************************************************************)
(* Program constants.                                                      *)
(***************************************************************************)
\* new StrategyEngine(10000): 10000 dollars, in cents
InitialBalance == 1000000

maxTotalRiskPct == 10

riskRewardRatioMinTenths == 13

maxNotionalPct == 10

(***************************************************************************)
(* Inputs the operations are called with.                                  *)
(***************************************************************************)
Symbols == {"ETHUSDT"}

EntryPrices == {200}

\* 5 coins
Quantities == {500}

StopLevels == {80, 320}

TakeProfitLevels == {40, 360}

\* 0.4, 0.5 and 0.7
Signals == {[n |-> 2, d |-> 5], [n |-> 1, d |-> 2], [n |-> 7, d |-> 10]}

MarketPrices == {190, 230}

ATRs == {25}

CloseQuantities == {0, 300, 600}

ProposedStops == {190, 230}

Balances == {500000}

\* createdAt of an id no position was ever stored under
NoSuchTime == 0

\* the weights a caller of MotifEnsemble.updateWeights supplies: 0 and 1/2
UpdateValues == {[n |-> 0, d |-> 1], [n |-> 1, d |-> 2]}

\* the symbol the TradingBot is constructed with
BotSymbol == "ETHUSDT"

\* what fetchMarketData resolves to: null, or market data
\* two of the markets of MARKETS
Markets == {"BTCUSDT", "ETHUSDT"}

StrategyTypes == {"TREND", "VOLATILITY", "EVENT_DRIVEN", "ML_PREDICTION"}

\* the bot's symbol and a second one
HistorySymbols == {"ETHUSDT", "BTCUSDT"}

NullData == [currentPrice |-> 0, atr14 |-> 0, reading |-> "null"]

MarketDatas ==
    {[currentPrice |-> 200, atr14 |-> 25, reading |-> "bullish"],
     [currentPrice |-> 230, atr14 |-> 25, reading |-> "bearish"]}

FetchResults == {NullData} \cup MarketDatas

(***************************************************************************)
(* Helpers.                                                                *)
(***************************************************************************)
Abs(x) ==
    IF x < 0 THEN -x ELSE x

Max(a, b) ==
    IF a > b THEN a ELSE b

Min(a, b) ==
    IF a < b THEN a ELSE b

RECURSIVE SumRisk(_)
SumRisk(book) ==
    IF book = <<>> THEN 0 ELSE Head(book).riskAmount + SumRisk(Tail(book))

RECURSIVE SumPnl(_)
SumPnl(hist) ==
    IF hist = <<>> THEN 0 ELSE Head(hist).pnl + SumPnl(Tail(hist))

SideSign(side) ==
    IF side = "LONG" THEN 1 ELSE -1

\* the Map key `${symbol}_${createdAt}`
KeyOf(pos) ==
    <<pos.symbol, pos.createdAt>>

\* Map.get: the index of the entry stored under id, 0 when there is none
IndexOf(book, id) ==
    IF \E i \in 1..Len(book) : KeyOf(book[i]) = id
    THEN CHOOSE i \in 1..Len(book) : KeyOf(book[i]) = id
    ELSE 0

\* Map.set: replaces the value of an existing key in place, else appends
MapSet(book, pos) ==
    LET i == IndexOf(book, KeyOf(pos))
    IN  IF i = 0 THEN Append(book, pos) ELSE [book EXCEPT ![i] = pos]

\* the ids a caller passes: every key of the book, and one unknown id
PositionIds(book) ==
    {KeyOf(book[i]) : i \in 1..Len(book)} \cup {<<s, NoSuchTime>> : s \in Symbols}

\* Map.delete
MapDelete(book, i) ==
    SubSeq(book, 1, i - 1) \o SubSeq(book, i + 1, Len(book))

(***************************************************************************)
(* JavaScript numbers that are not integers, as exact fractions n/d in     *)
(* lowest terms with d > 0.  A division by zero gives d = 0: 1/0 is        *)
(* Infinity, -1/0 is -Infinity and 0/0 is NaN, and these propagate as in   *)
(* IEEE 754.  Rounding (about 1e-16 relative) is not modelled.             *)
(***************************************************************************)
RECURSIVE GCD(_, _)
GCD(a, b) ==
    IF b = 0 THEN a ELSE GCD(b, a % b)

Sign(x) ==
    IF x > 0 THEN 1 ELSE IF x < 0 THEN -1 ELSE 0

Frac(n, d) ==
    IF d = 0
    THEN [n |-> Sign(n), d |-> 0]
    ELSE LET g == GCD(Abs(n), Abs(d))
         IN  [n |-> (Sign(d) * n) \div g, d |-> Abs(d) \div g]

NaN ==
    [n |-> 0, d |-> 0]

IsNaN(x) ==
    x.d = 0 /\ x.n = 0

IsFinite(x) ==
    x.d > 0

FAdd(x, y) ==
    IF IsFinite(x) /\ IsFinite(y)
    THEN LET g == GCD(x.d, y.d)
         IN  Frac(x.n * (y.d \div g) + y.n * (x.d \div g), (x.d \div g) * y.d)
    ELSE IF IsNaN(x) \/ IsNaN(y) THEN NaN
    ELSE IF IsFinite(x) THEN y
    ELSE IF IsFinite(y) THEN x
    ELSE IF x.n = y.n THEN x ELSE NaN

FMul(x, y) ==
    IF IsFinite(x) /\ IsFinite(y)
    THEN LET a == Frac(x.n, y.d)
             b == Frac(y.n, x.d)
         IN  [n |-> a.n * b.n, d |-> a.d * b.d]
    ELSE Frac(Sign(x.n) * Sign(y.n), 0)

FDiv(x, y) ==
    IF IsFinite(x) /\ IsFinite(y)
    THEN IF y.n = 0 THEN Frac(x.n, 0) ELSE FMul(x, Frac(y.d, y.n))
    ELSE IF IsNaN(x) \/ IsNaN(y) THEN NaN
    ELSE IF IsFinite(y) THEN Frac(x.n * (IF y.n < 0 THEN -1 ELSE 1), 0)
    ELSE IF IsFinite(x) THEN Frac(0, 1)
    ELSE NaN

\* a/b < c/d for b, d > 0, by integer parts and then the reciprocals of the
\* fractional parts, so that no product is formed
RECURSIVE LessRatio(_, _, _, _)
LessRatio(a, b, c, d) ==
    IF a \div b # c \div d THEN a \div b < c \div d
    ELSE IF c % d = 0 THEN FALSE
    ELSE IF a % b = 0 THEN TRUE
    ELSE LessRatio(d, c % d, b, a % b)

FLess(x, y) ==
    IsFinite(x) /\ IsFinite(y) /\ LessRatio(x.n, x.d, y.n, y.d)

FFloor(x) ==
    x.n \div x.d

Half ==
    [n |-> 1, d |-> 2]

(***************************************************************************)
(* Products too wide for one integer, as sequences of base-1000 digits,    *)
(* least significant first and without leading zeros; the factors are      *)
(* positive and below 2000000.                                             *)
(***************************************************************************)
RECURSIVE BigTimes(_, _, _)
BigTimes(x, m, carry) ==
    IF x = <<>>
    THEN (IF carry = 0 THEN <<>> ELSE <<carry % 1000>> \o BigTimes(<<>>, m, carry \div 1000))
    ELSE LET t == Head(x) * m + carry
         IN  <<t % 1000>> \o BigTimes(Tail(x), m, t \div 1000)

RECURSIVE BigProduct(_)
BigProduct(factors) ==
    IF factors = <<>> THEN <<1>>
    ELSE BigTimes(BigProduct(Tail(factors)), Head(factors), 0)

RECURSIVE BigLess(_, _)
BigLess(x, y) ==
    IF Len(x) # Len(y) THEN Len(x) < Len(y)
    ELSE IF x = <<>> THEN FALSE
    ELSE IF x[Len(x)] # y[Len(y)] THEN x[Len(x)] < y[Len(y)]
    ELSE BigLess(SubSeq(x, 1, Len(x) - 1), SubSeq(y, 1, Len(y) - 1))

(***************************************************************************)
(* RiskManager, as functions of the manager's state.                       *)
(***************************************************************************)
ValidateTrade(book, balance, entryPrice, stopLoss, takeProfit, quantity, signal) ==
    LET positionValue == entryPrice * quantity
        riskAmount    == Abs(entryPrice - stopLoss)
        rewardAmount  == Abs(takeProfit - entryPrice)
        \* ratio = rewardAmount / riskAmount is Infinity or NaN when
        \* riskAmount is 0, and neither is < riskRewardRatioMin
        ratioTooLow   == riskAmount # 0
                         /\ 10 * rewardAmount < riskRewardRatioMinTenths * riskAmount
        totalRisk     == SumRisk(book)
    IN  IF 100 * positionValue > maxNotionalPct * balance
        THEN [valid |-> FALSE, reason |-> "Position size exceeds 10% of balance"]
        ELSE IF ratioTooLow
        THEN [valid |-> FALSE, reason |-> "Risk/Reward ratio below minimum"]
        ELSE IF FLess(Half, signal) /\ stopLoss > entryPrice
        THEN [valid |-> FALSE, reason |-> "LONG signal but stop-loss above entry"]
        ELSE IF FLess(signal, Half) /\ stopLoss < entryPrice
        THEN [valid |-> FALSE, reason |-> "SHORT signal but stop-loss below entry"]
        ELSE IF 100 * totalRisk > maxTotalRiskPct * balance
        THEN [valid |-> FALSE, reason |-> "Total portfolio risk exceeded"]
        ELSE [valid |-> TRUE, reason |-> ""]

\* NewPosition with the side taken from signal >= 0.5
NewPosition_SideAtHalf(symbol, entryPrice, quantity, stopLoss, takeProfit, signal, createdAt, uid) ==
    [symbol |-> symbol,
     side |-> IF ~FLess(signal, Half) THEN "LONG" ELSE "SHORT",
     entryPrice |-> entryPrice,
     quantity |-> quantity,
     stopLoss |-> stopLoss,
     takeProfit |-> takeProfit,
     riskAmount |-> Abs(entryPrice - stopLoss) * quantity,
     createdAt |-> createdAt,
     initialSignal |-> signal,
     partialClosedQuantity |-> 0,
     uid |-> uid]

\* the position object openPosition builds (uid is its index in openLog)
NewPosition(symbol, entryPrice, quantity, stopLoss, takeProfit, signal, createdAt, uid) ==
    [symbol |-> symbol,
     side |-> IF FLess(Half, signal) THEN "LONG" ELSE "SHORT",
     entryPrice |-> entryPrice,
     quantity |-> quantity,
     stopLoss |-> stopLoss,
     takeProfit |-> takeProfit,
     riskAmount |-> Abs(entryPrice - stopLoss) * quantity,
     createdAt |-> createdAt,
     initialSignal |-> signal,
     partialClosedQuantity |-> 0,
     uid |-> uid]

\* openPosition: [opened, book]
OpenPositionOp(book, balance, symbol, entryPrice, quantity, stopLoss, takeProfit, signal, createdAt, uid) ==
    LET validation == ValidateTrade(book, balance, entryPrice, stopLoss, takeProfit, quantity, signal)
        position   == NewPosition(symbol, entryPrice, quantity, stopLoss, takeProfit, signal, createdAt, uid)
    IN  IF ~validation.valid
        THEN [opened |-> FALSE, book |-> book]
        ELSE [opened |-> TRUE, book |-> MapSet(book, position)]

\* quantityToClose || position.quantity
ClosingQuantity(position, hasQty, quantityToClose) ==
    IF hasQty /\ quantityToClose # 0 THEN quantityToClose ELSE position.quantity

\* ClosePnl computed on the whole open quantity
ClosePnl_WholeQuantity(position, exitPrice, closingQuantity) ==
    (exitPrice - position.entryPrice) * position.quantity * SideSign(position.side)

ClosePnl(position, exitPrice, closingQuantity) ==
    (exitPrice - position.entryPrice) * closingQuantity * SideSign(position.side)

\* closePosition: [found, uid, closedQty, pnl, fullyClosed, book, balance, history]
ClosePositionOp(book, balance, history, id, exitPrice, hasQty, quantityToClose) ==
    LET i == IndexOf(book, id)
    IN  IF i = 0
        THEN [found |-> FALSE, uid |-> 0, closedQty |-> 0, pnl |-> 0, fullyClosed |-> FALSE,
              book |-> book, balance |-> balance, history |-> history]
        ELSE
        LET position          == book[i]
            closingQuantity   == ClosingQuantity(position, hasQty, quantityToClose)
            remainingQuantity == position.quantity - closingQuantity
            pnl               == ClosePnl(position, exitPrice, closingQuantity)
        IN  IF remainingQuantity <= 0
            THEN [found |-> TRUE, uid |-> position.uid, closedQty |-> closingQuantity,
                  pnl |-> pnl, fullyClosed |-> TRUE,
                  book |-> MapDelete(book, i),
                  balance |-> balance + pnl,
                  history |-> Append(history,
                      [position |-> position, exitPrice |-> exitPrice, pnl |-> pnl])]
            ELSE [found |-> TRUE, uid |-> position.uid, closedQty |-> closingQuantity,
                  pnl |-> pnl, fullyClosed |-> FALSE,
                  book |-> [book EXCEPT ![i] =
                      [position EXCEPT !.quantity = remainingQuantity,
                                       !.partialClosedQuantity = @ + closingQuantity]],
                  balance |-> balance + pnl,
                  history |-> history]

\* updatePositionStop taking every proposed stop
UpdatePositionStopOp_Always(book, id, newStop) ==
    LET i == IndexOf(book, id)
    IN  IF i = 0 THEN book ELSE [book EXCEPT ![i].stopLoss = newStop]

\* updatePositionStop: the book after the call
UpdatePositionStopOp(book, id, newStop) ==
    LET i == IndexOf(book, id)
    IN  IF i = 0 THEN book
        ELSE IF book[i].side = "LONG"
        THEN (IF newStop > book[i].stopLoss
              THEN [book EXCEPT ![i].stopLoss = newStop] ELSE book)
        ELSE (IF newStop < book[i].stopLoss
              THEN [book EXCEPT ![i].stopLoss = newStop] ELSE book)

\* atr * 1.2, exact for the ATR values used (multiples of 5)
TrailingDistance(atr) ==
    (atr * 12) \div 10

CalculateTrailingStop(position, currentPrice, atr) ==
    IF position.side = "LONG"
    THEN Max(currentPrice - TrailingDistance(atr), position.stopLoss)
    ELSE Min(currentPrice + TrailingDistance(atr), position.stopLoss)

\* updateTrailingStop: the book after the call
UpdateTrailingStopOp(book, id, currentPrice, atr) ==
    LET i == IndexOf(book, id)
    IN  IF i = 0 THEN book
        ELSE
        LET position        == book[i]
            newTrailingStop == CalculateTrailingStop(position, currentPrice, atr)
        IN  IF position.side = "LONG"
            THEN (IF newTrailingStop > position.stopLoss
                  THEN [book EXCEPT ![i].stopLoss = newTrailingStop] ELSE book)
            ELSE (IF newTrailingStop < position.stopLoss
                  THEN [book EXCEPT ![i].stopLoss = newTrailingStop] ELSE book)

\* checkProfitTargets: [level, shouldClose]
CheckProfitTargetsOp(book, id, currentPrice) ==
    LET i == IndexOf(book, id)
    IN  IF i = 0 THEN [level |-> "null", shouldClose |-> FALSE]
        ELSE
        LET position == book[i]
            change   == currentPrice - position.entryPrice
            fresh    == position.partialClosedQuantity = 0
        IN  IF position.side = "LONG"
            THEN (IF 100 * change >= position.entryPrice /\ fresh
                  THEN [level |-> "1%", shouldClose |-> TRUE]
                  ELSE IF 1000 * change >= 5 * position.entryPrice /\ fresh
                  THEN [level |-> "0.5%", shouldClose |-> TRUE]
                  ELSE [level |-> "null", shouldClose |-> FALSE])
            ELSE (IF 100 * change <= -position.entryPrice /\ fresh
                  THEN [level |-> "1%", shouldClose |-> TRUE]
                  ELSE IF 1000 * change <= -(5 * position.entryPrice) /\ fresh
                  THEN [level |-> "0.5%", shouldClose |-> TRUE]
                  ELSE [level |-> "null", shouldClose |-> FALSE])

\* TriggeredLevel with strict comparisons
TriggeredLevel_Strict(position, currentPrice) ==
    IF position.side = "LONG"
    THEN (IF currentPrice < position.stopLoss THEN "stop"
          ELSE IF currentPrice > position.takeProfit THEN "target" ELSE "none")
    ELSE (IF currentPrice > position.stopLoss THEN "stop"
          ELSE IF currentPrice < position.takeProfit THEN "target" ELSE "none")

\* the level updatePosition closes at: "stop", "target" or "none"
TriggeredLevel(position, currentPrice) ==
    IF position.side = "LONG"
    THEN (IF currentPrice <= position.stopLoss THEN "stop"
          ELSE IF currentPrice >= position.takeProfit THEN "target" ELSE "none")
    ELSE (IF currentPrice >= position.stopLoss THEN "stop"
          ELSE IF currentPrice <= position.takeProfit THEN "target" ELSE "none")

\* updatePosition: [found, hit, uid, closedQty, pnl, book, balance, history]; hasAtr
\* and atr # 0 is `if (atr)`
UpdatePositionOp(book, balance, history, id, currentPrice, hasAtr, atr) ==
    LET i == IndexOf(book, id)
    IN  IF i = 0
        THEN [found |-> FALSE, hit |-> "none", uid |-> 0, closedQty |-> 0, pnl |-> 0,
              book |-> book, balance |-> balance, history |-> history]
        ELSE
        LET trailed  == IF hasAtr /\ atr # 0
                        THEN UpdateTrailingStopOp(book, id, currentPrice, atr) ELSE book
            position == trailed[i]
            hit      == TriggeredLevel(position, currentPrice)
            level    == IF hit = "stop" THEN position.stopLoss ELSE position.takeProfit
            closed   == ClosePositionOp(trailed, balance, history, id, level, FALSE, 0)
        IN  IF hit = "none"
            THEN [found |-> TRUE, hit |-> hit, uid |-> position.uid, closedQty |-> 0, pnl |-> 0,
                  book |-> trailed, balance |-> balance, history |-> history]
            ELSE [found |-> TRUE, hit |-> hit, uid |-> position.uid,
                  closedQty |-> closed.closedQty, pnl |-> closed.pnl,
                  book |-> closed.book, balance |-> closed.balance, history |-> closed.history]

(***************************************************************************)
(* MotifEnsemble.                                                          *)
(***************************************************************************)
MotifTypes == {"trend", "momentum", "volatility", "sentiment"}

InitialWeights ==
    [trend |-> Frac(35, 100), momentum |-> Frac(25, 100),
     volatility |-> Frac(20, 100), sentiment |-> Frac(20, 100)]

\* Object.values(weights).reduce((a, b) => a + b, 0)
SumWeights(w) ==
    FAdd(FAdd(FAdd(FAdd(Frac(0, 1), w["trend"]), w["momentum"]), w["volatility"]),
         w["sentiment"])

\* updates is a partial map: a function on a subset of MotifTypes
UpdateWeightsOp(w, updates) ==
    LET merged == [m \in MotifTypes |-> IF m \in DOMAIN updates THEN updates[m] ELSE w[m]]
        sum    == SumWeights(merged)
    IN  [m \in MotifTypes |-> FDiv(merged[m], sum)]

\* what the four motifs report for the fetched candles, order book and price
\* history (signal and confidence in percent), by the name of the reading
MotifReading(name) ==
    IF name = "bullish"
    THEN [trend      |-> [signal |-> 85, confidence |-> 100],
          momentum   |-> [signal |-> 70, confidence |-> 90],
          volatility |-> [signal |-> 50, confidence |-> 70],
          sentiment  |-> [signal |-> 60, confidence |-> 30]]
    ELSE IF name = "bearish"
    THEN [trend      |-> [signal |-> 15, confidence |-> 100],
          momentum   |-> [signal |-> 30, confidence |-> 90],
          volatility |-> [signal |-> 50, confidence |-> 70],
          sentiment  |-> [signal |-> 40, confidence |-> 30]]
    ELSE IF name = "mild"
    THEN \* ema20 > ema50 with the price below ema20, macdHistogram < 0, rsi14
         \* between 50 and 60 without stochastics, atr14 without bands
         [trend      |-> [signal |-> 60, confidence |-> 100],
          momentum   |-> [signal |-> 55, confidence |-> 70],
          volatility |-> [signal |-> 50, confidence |-> 70],
          sentiment  |-> [signal |-> 50, confidence |-> 30]]
    ELSE \* no indicators and no price history: analyze({}, price, symbol, null, [])
         [trend      |-> [signal |-> 50, confidence |-> 50],
          momentum   |-> [signal |-> 50, confidence |-> 30],
          volatility |-> [signal |-> 50, confidence |-> 40],
          sentiment  |-> [signal |-> 50, confidence |-> 30]]

\* Math.min(Math.max(x, 0), 1)
Clamp01(x) ==
    IF IsNaN(x) THEN NaN
    ELSE IF ~IsFinite(x) THEN (IF x.n > 0 THEN Frac(1, 1) ELSE Frac(0, 1))
    ELSE IF x.n < 0 THEN Frac(0, 1)
    ELSE IF x.n > x.d THEN Frac(1, 1)
    ELSE x

EnsembleAnalyze(w, reading) ==
    LET Weighted(field) ==
            FAdd(FAdd(FAdd(FAdd(Frac(0, 1),
                FMul(Frac(reading["trend"][field], 100), w["trend"])),
                FMul(Frac(reading["momentum"][field], 100), w["momentum"])),
                FMul(Frac(reading["volatility"][field], 100), w["volatility"])),
                FMul(Frac(reading["sentiment"][field], 100), w["sentiment"]))
    IN  [signal |-> Clamp01(Weighted("signal")), confidence |-> Weighted("confidence")]

(***************************************************************************)
(* AdaptiveLearningEngine: BayesianLearning, MarkovChain, QLearning.       *)
(***************************************************************************)
NoCounts ==
    [m \in MotifTypes |-> 0]

RecordOutcome(counts, motifType) ==
    [counts EXCEPT ![motifType] = @ + 1]

\* EstimateSuccessRate with alpha + beta counted as 1 + successes + failures
EstimateSuccessRate_BetaWithoutPrior(successes, failures, motifType) ==
    Frac(1 + successes[motifType], 1 + successes[motifType] + failures[motifType])

EstimateSuccessRate(successes, failures, motifType) ==
    Frac(1 + successes[motifType], 2 + successes[motifType] + failures[motifType])

\* BayesianLearning.updateWeights: prior 0.25 times the estimated rate, normalised
BayesUpdateWeights(successes, failures) ==
    LET likelihood == [m \in MotifTypes |->
                          FMul(Frac(1, 4), EstimateSuccessRate(successes, failures, m))]
        totalLikelihood == SumWeights(likelihood)
    IN  [m \in MotifTypes |->
            IF FLess(Frac(0, 1), totalLikelihood)
            THEN FDiv(likelihood[m], totalLikelihood)
            ELSE Frac(1, 4)]

\* a Map with no entries
EmptyMap ==
    [k \in {} |-> 0]

\* MarkovChain.recordTransition; the table is keyed by <<fromState, toState>>
RecordTransition(table, fromState, toState) ==
    LET k == <<fromState, toState>>
    IN  [x \in DOMAIN table \cup {k} |->
            IF x \in DOMAIN table
            THEN (IF x = k THEN table[x] + 1 ELSE table[x])
            ELSE 1]

QActions == {"LONG", "SHORT", "NEUTRAL", "REDUCE_POSITION"}

\* qValues.get(key)?.get('value') || 0; the table is keyed by <<state, action>>
QValue(q, state, action) ==
    LET k == <<state, action>>
    IN  IF k \in DOMAIN q /\ ~IsNaN(q[k]) THEN q[k] ELSE Frac(0, 1)

\* GetMaxQValue reading the NEUTRAL entry only
GetMaxQValue_NeutralOnly(q, state) ==
    QValue(q, state, "NEUTRAL")

GetMaxQValue(q, state) ==
    LET values == {QValue(q, state, a) : a \in QActions}
    IN  CHOOSE v \in values : \A u \in values : ~FLess(v, u)

\* newQ = currentQ + 0.1 * (reward + 0.95 * maxNextQ - currentQ)
RecordReward(q, state, action, reward, nextState) ==
    LET k        == <<state, action>>
        currentQ == QValue(q, state, action)
        maxNextQ == GetMaxQValue(q, nextState)
        target   == FAdd(reward, FMul(Frac(95, 100), maxNextQ))
        newQ     == FAdd(currentQ,
                         FMul(Frac(1, 10), FAdd(target, Frac(-currentQ.n, currentQ.d))))
    IN  [x \in DOMAIN q \cup {k} |-> IF x = k THEN newQ ELSE q[x]]

\* LearnTradeOutcome recording no outcome for a failed trade
LearnTradeOutcome_FailuresUncounted(e, motifType, success, currentState, nextState, reward) ==
    LET action == IF success
                  THEN (IF FLess(Frac(0, 1), reward) THEN "LONG" ELSE "SHORT")
                  ELSE "REDUCE_POSITION"
    IN  [e EXCEPT
            !.successCounts = IF success THEN RecordOutcome(@, motifType) ELSE @,
            !.transitions   = RecordTransition(@, currentState, nextState),
            !.qValues       = RecordReward(@, currentState, action, reward, nextState)]

\* AdaptiveLearningEngine.recordTradeOutcome, on the engine state e
LearnTradeOutcome(e, motifType, success, currentState, nextState, reward) ==
    LET action == IF success
                  THEN (IF FLess(Frac(0, 1), reward) THEN "LONG" ELSE "SHORT")
                  ELSE "REDUCE_POSITION"
    IN  [e EXCEPT
            !.successCounts = IF success THEN RecordOutcome(@, motifType) ELSE @,
            !.failureCounts = IF success THEN @ ELSE RecordOutcome(@, motifType),
            !.transitions   = RecordTransition(@, currentState, nextState),
            !.qValues       = RecordReward(@, currentState, action, reward, nextState)]

\* signal.toFixed(2): the string of the value rounded to hundredths
ToFixed2(x) ==
    IF IsFinite(x)
    THEN [kind |-> "toFixed", n |-> (200 * x.n + x.d) \div (2 * x.d), d |-> 100]
    ELSE [kind |-> "toFixed", n |-> x.n, d |-> 0]

\* x.toString(): the shortest string that reads back as x
NumberToString(x) ==
    [kind |-> "toString", n |-> x.n, d |-> x.d]

(***************************************************************************)
(* RiskManager sizing, for market data that carries atr14 > 0 (a multiple  *)
(* of 5, so that atr * 1.2 and the 2.5 reward multiple are whole dollars   *)
(* and parseFloat(x.toFixed(8)) returns x).                                *)
(***************************************************************************)
CalculateStopLoss(entryPrice, signal, atr) ==
    LET direction == IF FLess(Half, signal) THEN 1 ELSE -1
    IN  entryPrice - direction * TrailingDistance(atr)

\* riskRewardRatio 2.5, as executeDecision passes it
CalculateTakeProfit(entryPrice, stopLoss) ==
    LET riskAmount   == Abs(entryPrice - stopLoss)
        rewardAmount == (riskAmount * 25) \div 10
        direction    == IF entryPrice > stopLoss THEN 1 ELSE -1
    IN  entryPrice + direction * rewardAmount

\* in hundredths of a coin: Math.floor(quantity * 100) / 100; volatility 0.5
\* and sentimentRiskAdjustment 1.0 are the defaults executeDecision leaves.
\* The quantity before the cap is the product of four fractions; the floor of
\* the smaller of it and the cap is the largest whole k at most the cap with
\* product >= k, and product >= k compares two products of whole numbers.
CalculatePositionSize(balance, entryPrice, stopLoss, signal, confidence) ==
    LET riskPerTrade == Frac(balance * 15, 1000)
        priceRisk    == Abs(entryPrice - stopLoss)
        byRisk       == FDiv(riskPerTrade, Frac(priceRisk, 1))
        byConfidence == FAdd(Frac(4, 10), FMul(confidence, Frac(6, 10)))
        distance     == FAdd(signal, Frac(-1, 2))
        signalStrength == FMul(Frac(Abs(distance.n), distance.d), Frac(2, 1))
        bySignal     == FAdd(Frac(6, 10), FMul(signalStrength, Frac(4, 10)))
        byVolatility == Frac(7, 8)
        numerator    == BigProduct(<<byRisk.n, byConfidence.n, bySignal.n, byVolatility.n>>)
        denominator  == BigProduct(<<byRisk.d, byConfidence.d, bySignal.d, byVolatility.d>>)
        AtLeast(k)   == k = 0 \/ ~BigLess(numerator, BigTimes(denominator, k, 0))
        maxPositionValue == Frac(balance * 25, 1000)
        \* quantity * entryPrice > maxPositionValue, divided through by entryPrice
        maxQuantity  == FFloor(FDiv(maxPositionValue, Frac(entryPrice, 1)))
    IN  IF priceRisk = 0 \/ entryPrice = 0 THEN 0
        ELSE IF AtLeast(maxQuantity) THEN maxQuantity
        ELSE CHOOSE k \in 0..maxQuantity : AtLeast(k) /\ ~AtLeast(k + 1)

(***************************************************************************)
(* StrategyEngine, as functions of the engine state e: the RiskManager's   *)
(* book, balance and history, the ensemble weights and the learning state. *)
(***************************************************************************)
\* riskManager.closePosition(id, exitPrice) on the engine state
EngineClose(e, id, exitPrice) ==
    LET r == ClosePositionOp(e.portfolio, e.accountBalance, e.tradeHistory, id,
                             exitPrice, FALSE, 0)
    IN  [e EXCEPT !.portfolio = r.book,
                  !.accountBalance = r.balance,
                  !.tradeHistory = r.history,
                  !.pnlSum = @ + r.pnl,
                  !.realizedQty = IF r.uid = 0 THEN @
                                  ELSE [@ EXCEPT ![r.uid] = @ + r.closedQty]]

\* Classify with the weak bands open at their outer ends
Classify_WeakUnbounded(signal, confidence) ==
    IF FLess(Frac(58, 100), signal) /\ FLess(Frac(4, 10), confidence) THEN "LONG"
    ELSE IF FLess(signal, Frac(42, 100)) /\ FLess(Frac(4, 10), confidence) THEN "SHORT"
    ELSE IF FLess(Frac(52, 100), signal) THEN "LONG"
    ELSE IF FLess(signal, Frac(48, 100)) THEN "SHORT"
    ELSE "NEUTRAL"

\* the action analyzeAndDecide takes from the ensemble's signal and confidence,
\* before the reversal override
Classify(signal, confidence) ==
    IF FLess(Frac(58, 100), signal) /\ FLess(Frac(4, 10), confidence) THEN "LONG"
    ELSE IF FLess(signal, Frac(42, 100)) /\ FLess(Frac(4, 10), confidence) THEN "SHORT"
    ELSE IF FLess(Frac(52, 100), signal) /\ ~FLess(Frac(58, 100), signal) THEN "LONG"
    ELSE IF FLess(signal, Frac(48, 100)) /\ ~FLess(signal, Frac(42, 100)) THEN "SHORT"
    ELSE "NEUTRAL"

\* the decision analyzeAndDecide returns for market data that was fetched
AnalyzeAndDecideOp(e, marketData) ==
    LET ensembleResult == EnsembleAnalyze(e.weights, MotifReading(marketData.reading))
        action   == Classify(ensembleResult.signal, ensembleResult.confidence)
        reversal == /\ Len(e.portfolio) > 0
                    /\ action # "NEUTRAL"
                    /\ \/ action = "LONG" /\ e.portfolio[1].side = "SHORT"
                       \/ action = "SHORT" /\ e.portfolio[1].side = "LONG"
    IN  [action     |-> IF reversal THEN "CLOSE_POSITION" ELSE action,
         signal     |-> ensembleResult.signal,
         confidence |-> ensembleResult.confidence]

\* PushPrice dropping the price just pushed from a full buffer
PushPrice_EvictsNewest(history, price) ==
    LET pushed == Append(history, price)
    IN  IF Len(pushed) > 200 THEN SubSeq(pushed, 1, 200) ELSE pushed

\* history.push(price); if (history.length > maxHistoryLength) history.shift()
PushPrice(history, price) ==
    LET pushed == Append(history, price)
    IN  IF Len(pushed) > 200 THEN Tail(pushed) ELSE pushed

\* positions.find(p => p.symbol === symbol): its index, 0 when there is none
FirstWithSymbol(book, symbol) ==
    IF \E i \in 1..Len(book) : book[i].symbol = symbol
    THEN CHOOSE i \in 1..Len(book) :
            /\ book[i].symbol = symbol
            /\ \A j \in 1..(i - 1) : book[j].symbol # symbol
    ELSE 0

\* RecordTradeOutcomeOp counting a trade that breaks even as a success
RecordTradeOutcomeOp_BreakEvenWins(e, symbol, exitPrice, motifType) ==
    LET i == FirstWithSymbol(e.portfolio, symbol)
    IN  IF i = 0 THEN e
        ELSE
        LET position == e.portfolio[i]
            pnl      == (exitPrice - position.entryPrice) * position.quantity
                            * SideSign(position.side)
            success  == pnl >= 0
            currentState == ToFixed2(EnsembleAnalyze(e.weights, MotifReading("none")).signal)
            nextState    == NumberToString(Frac(exitPrice * 101, 100))
        IN  EngineClose(LearnTradeOutcome(e, motifType, success, currentState,
                                          nextState, Frac(pnl, 1)),
                        KeyOf(position), exitPrice)

\* pnl and the reward are in cents; the Q-values are linear in the rewards
RecordTradeOutcomeOp(e, symbol, exitPrice, motifType) ==
    LET i == FirstWithSymbol(e.portfolio, symbol)
    IN  IF i = 0 THEN e
        ELSE
        LET position == e.portfolio[i]
            pnl      == (exitPrice - position.entryPrice) * position.quantity
                            * SideSign(position.side)
            success  == pnl > 0
            currentState == ToFixed2(EnsembleAnalyze(e.weights, MotifReading("none")).signal)
            nextState    == NumberToString(Frac(exitPrice * 101, 100))
        IN  EngineClose(LearnTradeOutcome(e, motifType, success, currentState,
                                          nextState, Frac(pnl, 1)),
                        KeyOf(position), exitPrice)

UpdateMotifWeightsOp(e) ==
    [e EXCEPT !.weights =
        UpdateWeightsOp(@, BayesUpdateWeights(e.successCounts, e.failureCounts))]

\* executeDecision: the engine state after it, and whether it returned an execution
ExecuteDecisionOp(e, decision, symbol, marketData, createdAt) ==
    IF decision.action = "NEUTRAL" THEN [engine |-> e, executed |-> FALSE]
    ELSE IF decision.action = "CLOSE_POSITION"
    THEN [engine   |-> IF Len(e.portfolio) > 0
                       THEN EngineClose(e, KeyOf(e.portfolio[1]), marketData.currentPrice)
                       ELSE e,
          executed |-> FALSE]
    ELSE
    LET stopLoss   == CalculateStopLoss(marketData.currentPrice, decision.signal,
                                        marketData.atr14)
        takeProfit == CalculateTakeProfit(marketData.currentPrice, stopLoss)
        quantity   == CalculatePositionSize(e.accountBalance, marketData.currentPrice,
                                            stopLoss, decision.signal, decision.confidence)
        uid        == Len(e.openLog) + 1
        r          == OpenPositionOp(e.portfolio, e.accountBalance, symbol,
                                     marketData.currentPrice, quantity, stopLoss,
                                     takeProfit, decision.signal, createdAt, uid)
        position   == NewPosition(symbol, marketData.currentPrice, quantity, stopLoss,
                                  takeProfit, decision.signal, createdAt, uid)
    IN  IF quantity = 0 \/ ~r.opened THEN [engine |-> e, executed |-> FALSE]
        ELSE [engine   |-> [e EXCEPT !.portfolio = r.book,
                                     !.now = createdAt,
                                     !.openLog = Append(@, position),
                                     !.realizedQty = Append(@, 0)],
              executed |-> TRUE]

(***************************************************************************)
(* The RiskManager's operations as actions.                                *)
(***************************************************************************)
InitEngine ==
    /\ portfolio = <<>>
    /\ accountBalance = InitialBalance
    /\ tradeHistory = <<>>
    /\ now = 1
    /\ ret = [op |-> "constructor"]
    /\ openLog = <<>>
    /\ basis = InitialBalance
    /\ pnlSum = 0
    /\ realizedQty = <<>>
    /\ calls = 0
    /\ fired = {}
    /\ pending = <<>>
    /\ weights = InitialWeights
    /\ weightUpdates = 0
    /\ successCounts = NoCounts
    /\ failureCounts = NoCounts
    /\ transitions = EmptyMap
    /\ qValues = EmptyMap
    /\ priceHistory = <<>>
    /\ otherHistory = <<>>
    /\ fetchLog = [s \in HistorySymbols |-> <<>>]
    /\ ensembleWeights = [s \in Markets |-> [t \in StrategyTypes |-> [n |-> 1, d |-> 4]]]
    /\ motifPatterns = <<>>
    /\ openPositions = <<>>
    /\ coinsLeft = <<>>
    /\ multiCounts = [decisionsCount |-> 0, tradesCount |-> 0, cycles |-> 0]
    /\ agentUpdates = <<>>
    /\ isRunning = FALSE
    /\ tradingLoop = FALSE
    /\ cycles = <<>>
    /\ decisionsCount = 0
    /\ tradesCount = 0
    /\ errors = 0
    /\ stops = <<>>
    /\ orphanTimers = 0
    /\ requests = <<>>
    /\ atrMultiplier = [n |-> 6, d |-> 5]
    /\ started = 0

Init ==
    /\ InitEngine
    /\ engineChecksTargets = TRUE
    /\ isDemoMode = FALSE

\* one more call on the manager, while the exploration bound allows it
Call ==
    /\ calls < MaxCalls
    /\ calls' = calls + 1
    /\ UNCHANGED <<fired, pending, ensembleVars, learnVars, botVars>>

\* the realized quantity of uid grows by qty
Realize(uid, qty) ==
    IF uid = 0 THEN realizedQty ELSE [realizedQty EXCEPT ![uid] = @ + qty]

\* the values Date.now() can return to the next openPosition: the millisecond
\* of the last one, or a later one
ClockReadings ==
    {now, now + 1}

OpenPositionCall(symbol, entryPrice, quantity, stopLoss, takeProfit, signal, createdAt) ==
    LET uid == Len(openLog) + 1
        r   == OpenPositionOp(portfolio, accountBalance, symbol, entryPrice, quantity,
                              stopLoss, takeProfit, signal, createdAt, uid)
        position == NewPosition(symbol, entryPrice, quantity, stopLoss, takeProfit,
                                signal, createdAt, uid)
        \* the arguments of the call, and the clock reading it took
        args == [symbol |-> symbol, entryPrice |-> entryPrice, quantity |-> quantity,
                 stopLoss |-> stopLoss, takeProfit |-> takeProfit, signal |-> signal,
                 createdAt |-> createdAt]
    IN  /\ Call
        /\ now' = IF r.opened THEN createdAt ELSE now
        /\ portfolio' = r.book
        /\ openLog' = IF r.opened THEN Append(openLog, position) ELSE openLog
        /\ realizedQty' = IF r.opened THEN Append(realizedQty, 0) ELSE realizedQty
        /\ ret' = IF r.opened
                   THEN [op |-> "openPosition", isNull |-> FALSE, position |-> position,
                         args |-> args]
                   ELSE [op |-> "openPosition", isNull |-> TRUE, args |-> args]
        /\ UNCHANGED <<accountBalance, tradeHistory, basis, pnlSum>>

OpenPosition ==
    \E symbol \in Symbols, entryPrice \in EntryPrices, quantity \in Quantities,
       stopLoss \in StopLevels, takeProfit \in TakeProfitLevels, signal \in Signals,
       createdAt \in ClockReadings :
        OpenPositionCall(symbol, entryPrice, quantity, stopLoss, takeProfit, signal, createdAt)

ClosePosition ==
    /\ Call
    /\ \E id \in PositionIds(portfolio), exitPrice \in MarketPrices, hasQty \in BOOLEAN,
       quantityToClose \in CloseQuantities :
        LET r == ClosePositionOp(portfolio, accountBalance, tradeHistory, id, exitPrice,
                                 hasQty, quantityToClose)
        IN  /\ (~hasQty => quantityToClose = 0)
            /\ portfolio' = r.book
            /\ accountBalance' = r.balance
            /\ tradeHistory' = r.history
            /\ pnlSum' = pnlSum + r.pnl
            /\ realizedQty' = Realize(r.uid, r.closedQty)
            /\ ret' = IF r.found
                       THEN [op |-> "closePosition", isNull |-> FALSE, id |-> id,
                             exitPrice |-> exitPrice, hasQty |-> hasQty,
                             quantityToClose |-> quantityToClose, uid |-> r.uid,
                             closedQty |-> r.closedQty, pnl |-> r.pnl,
                             newBalance |-> r.balance, fullyClosed |-> r.fullyClosed]
                       ELSE [op |-> "closePosition", isNull |-> TRUE, id |-> id]
            /\ UNCHANGED <<now, openLog, basis>>

UpdatePositionStop ==
    /\ Call
    /\ \E id \in PositionIds(portfolio), newStop \in ProposedStops :
        /\ portfolio' = UpdatePositionStopOp(portfolio, id, newStop)
        /\ ret' = [op |-> "updatePositionStop", isNull |-> IndexOf(portfolio, id) = 0]
        /\ UNCHANGED <<accountBalance, tradeHistory, now, openLog, basis, pnlSum, realizedQty>>

UpdateTrailingStop ==
    /\ Call
    /\ \E id \in PositionIds(portfolio), currentPrice \in MarketPrices, atr \in ATRs :
        /\ portfolio' = UpdateTrailingStopOp(portfolio, id, currentPrice, atr)
        /\ ret' = [op |-> "updateTrailingStop"]
        /\ UNCHANGED <<accountBalance, tradeHistory, now, openLog, basis, pnlSum, realizedQty>>

UpdatePosition ==
    /\ Call
    /\ \E id \in PositionIds(portfolio), currentPrice \in MarketPrices, hasAtr \in BOOLEAN, atr \in ATRs :
        LET r == UpdatePositionOp(portfolio, accountBalance, tradeHistory, id, currentPrice,
                                  hasAtr, atr)
        IN  /\ portfolio' = r.book
            /\ accountBalance' = r.balance
            /\ tradeHistory' = r.history
            /\ pnlSum' = pnlSum + r.pnl
            /\ realizedQty' = Realize(r.uid, r.closedQty)
            /\ ret' = [op |-> "updatePosition", found |-> r.found,
                       isNull |-> (~r.found \/ r.hit # "none"), hit |-> r.hit,
                       id |-> id, currentPrice |-> currentPrice,
                       atr |-> IF hasAtr THEN atr ELSE 0]
            /\ UNCHANGED <<now, openLog, basis>>

CheckProfitTargets ==
    /\ Call
    /\ \E id \in PositionIds(portfolio), currentPrice \in MarketPrices :
        /\ ret' = [op |-> "checkProfitTargets",
                   result |-> CheckProfitTargetsOp(portfolio, id, currentPrice)]
        /\ UNCHANGED <<portfolio, accountBalance, tradeHistory, now, openLog, basis, pnlSum,
                       realizedQty>>

SetAccountBalance ==
    /\ Call
    /\ \E balance \in Balances :
        /\ accountBalance' = balance
        /\ basis' = balance
        /\ pnlSum' = 0
        /\ ret' = [op |-> "setAccountBalance"]
        /\ UNCHANGED <<portfolio, tradeHistory, now, openLog, realizedQty>>

Next ==
    \/ OpenPosition
    \/ ClosePosition
    \/ UpdatePositionStop
    \/ UpdateTrailingStop
    \/ UpdatePosition
    \/ CheckProfitTargets
    \/ SetAccountBalance

Spec ==
    Init /\ [][Next]_vars

(***************************************************************************)
(* Properties of the RiskManager.                                          *)
(***************************************************************************)
\* a position as it was when openPosition returned it
Opened(uid) ==
    openLog[uid]

OpenSucceeded ==
    ret.op = "openPosition" /\ ~ret.isNull

CloseFound ==
    ret.op = "closePosition" /\ ~ret.isNull

\* C1: after every successful openPosition the total riskAmount of the open
\* positions, the new one included, is at most accountBalance * maxTotalRisk.
RiskCapAfterOpen ==
    OpenSucceeded => 100 * SumRisk(portfolio) <= maxTotalRiskPct * accountBalance

\* C2: every position openPosition inserts has stopLoss < entryPrice < takeProfit
\* when LONG and takeProfit < entryPrice < stopLoss when SHORT.
StopDirectionAtOpen ==
    OpenSucceeded =>
        LET p == ret.position
        IN  IF p.side = "LONG"
            THEN p.stopLoss < p.entryPrice /\ p.entryPrice < p.takeProfit
            ELSE p.takeProfit < p.entryPrice /\ p.entryPrice < p.stopLoss

\* C4: while a position is in the book partialClosedQuantity + quantity is the
\* quantity it was opened with; the quantity PnL was realized on never exceeds
\* the opened quantity; every close realizes (exit - entry) * closedQty * sideSign.
PartialCloseConservation ==
    /\ \A i \in 1..Len(portfolio) :
          portfolio[i].partialClosedQuantity + portfolio[i].quantity
              = Opened(portfolio[i].uid).quantity
    /\ \A uid \in 1..Len(openLog) :
          realizedQty[uid] <= Opened(uid).quantity
    /\ CloseFound =>
          ret.pnl = (ret.exitPrice - Opened(ret.uid).entryPrice) * ret.closedQty
                        * SideSign(Opened(ret.uid).side)

\* C5: over any call, the stopLoss of an open LONG position never decreases and
\* never is below the stop it was opened with; of a SHORT position it never
\* increases and never is above the stop it was opened with.
TrailingStopMonotone ==
    [][\A i \in 1..Len(portfolio), j \in 1..Len(portfolio') :
          (portfolio[i].uid = portfolio'[j].uid) =>
              IF portfolio[i].side = "LONG"
              THEN /\ portfolio'[j].stopLoss >= portfolio[i].stopLoss
                   /\ portfolio'[j].stopLoss >= Opened(portfolio[i].uid).stopLoss
              ELSE /\ portfolio'[j].stopLoss <= portfolio[i].stopLoss
                   /\ portfolio'[j].stopLoss <= Opened(portfolio[i].uid).stopLoss]_vars

\* C5 witness: updateTrailingStop has raised the stop of a LONG position
\* above the stop it was opened with.
TrailingStopRaised ==
    /\ ret.op = "updateTrailingStop"
    /\ \E i \in 1..Len(portfolio) :
          /\ portfolio[i].side = "LONG"
          /\ portfolio[i].stopLoss > Opened(portfolio[i].uid).stopLoss

\* C8: closePosition with a quantityToClose below the open quantity (0
\* included) keeps the position with the quantity reduced by quantityToClose
\* and adds nothing to the history; with quantityToClose omitted or >= the
\* quantity it removes the position and appends one history record; on an
\* unknown id it returns null and changes nothing.
ClosePartialVsFull ==
    [][(ret'.op = "closePosition") =>
          LET i == IndexOf(portfolio, ret'.id)
          IN  IF i = 0
              THEN /\ ret'.isNull
                   /\ portfolio' = portfolio
                   /\ tradeHistory' = tradeHistory
                   /\ accountBalance' = accountBalance
              ELSE IF ret'.hasQty /\ ret'.quantityToClose < portfolio[i].quantity
              THEN /\ IndexOf(portfolio', ret'.id) = i
                   /\ portfolio'[i].quantity = portfolio[i].quantity - ret'.quantityToClose
                   /\ tradeHistory' = tradeHistory
              ELSE /\ IndexOf(portfolio', ret'.id) = 0
                   /\ Len(portfolio') = Len(portfolio) - 1
                   /\ Len(tradeHistory') = Len(tradeHistory) + 1]_vars

\* C9: a closePosition call that finds its position changes accountBalance by
\* the pnl it returns, pnl = (exitPrice - entryPrice) * closedQty * sideSign
\* with closedQty the quantity the call closes (quantityToClose when given and
\* not 0, else the whole open quantity), and returns the new balance; opening,
\* trailing and checking leave the balance alone; the balance is the balance
\* last set plus the sum of the pnl of all closePosition calls since.
RealizedPnlAccounting ==
    [][/\ (ret'.op = "closePosition" /\ ~ret'.isNull) =>
             LET p == portfolio[IndexOf(portfolio, ret'.id)]
                 closedQty == IF ret'.hasQty /\ ret'.quantityToClose # 0
                              THEN ret'.quantityToClose ELSE p.quantity
             IN  /\ ret'.pnl = (ret'.exitPrice - p.entryPrice) * closedQty * SideSign(p.side)
                 /\ accountBalance' = accountBalance + ret'.pnl
                 /\ ret'.newBalance = accountBalance'
       /\ (ret'.op \in {"openPosition", "updatePositionStop", "updateTrailingStop",
                        "checkProfitTargets"}) =>
             accountBalance' = accountBalance
       /\ (ret'.op = "closePosition" /\ ret'.isNull) => accountBalance' = accountBalance
       /\ accountBalance' = basis' + pnlSum']_vars

\* C9 witness: a partial close has returned a pnl other than 0.
PartialCloseRealizedPnl ==
    CloseFound /\ ~ret.fullyClosed /\ ret.pnl # 0 /\ accountBalance # basis

\* C10: for a call openPosition(args), with args the arguments the step was
\* taken with: when validateTrade rejects, openPosition returns null and leaves book,
\* history and balance unchanged; when it accepts, openPosition returns the
\* position it stored under symbol_createdAt, with side LONG iff signal > 0.5,
\* and touches no other entry, nor the history, nor the balance.
OpenPositionContract ==
    [][(ret'.op = "openPosition") =>
       \A symbol \in {ret'.args.symbol}, entryPrice \in {ret'.args.entryPrice},
          quantity \in {ret'.args.quantity}, stopLoss \in {ret'.args.stopLoss},
          takeProfit \in {ret'.args.takeProfit}, signal \in {ret'.args.signal},
          createdAt \in {ret'.args.createdAt} :
          OpenPositionCall(symbol, entryPrice, quantity, stopLoss, takeProfit, signal,
                           createdAt) =>
              LET v  == ValidateTrade(portfolio, accountBalance, entryPrice, stopLoss,
                                      takeProfit, quantity, signal)
                  id == <<symbol, createdAt>>
                  i  == IndexOf(portfolio', id)
              IN  /\ tradeHistory' = tradeHistory
                  /\ accountBalance' = accountBalance
                  /\ ~v.valid => (ret'.isNull /\ portfolio' = portfolio)
                  /\ v.valid =>
                        /\ ~ret'.isNull
                        /\ i # 0
                        /\ portfolio'[i] = ret'.position
                        /\ ret'.position.symbol = symbol
                        /\ ret'.position.createdAt = createdAt
                        /\ ret'.position.entryPrice = entryPrice
                        /\ ret'.position.quantity = quantity
                        /\ ret'.position.stopLoss = stopLoss
                        /\ ret'.position.takeProfit = takeProfit
                        /\ (ret'.position.side = "LONG") <=> FLess(Half, signal)
                        /\ ret'.position.side \in {"LONG", "SHORT"}
                        /\ Len(portfolio') = Len(portfolio)
                               + (IF IndexOf(portfolio, id) = 0 THEN 1 ELSE 0)
                        /\ \A k \in 1..Len(portfolio) :
                              KeyOf(portfolio[k]) # id => portfolio'[k] = portfolio[k]]_vars

\* C10 witness: openPosition has stored a second position next to an open one.
SecondPositionOpened ==
    OpenSucceeded /\ Len(portfolio) = 2 /\ portfolio[2] = ret.position

\* the arguments validateTrade is examined with: stops below, at and above the
\* entry, rewards below and above 1.3 times the risk, notional at and above
\* 10% of the initial balance
ValidateStops ==
    {80, 150, 200, 320}

ValidateTakeProfits ==
    {40, 250, 360}

ValidateQuantities ==
    {500, 600}

\* C11: validateTrade returns valid = false exactly when (a) the notional
\* exceeds 10% of the balance, or (b) reward / risk is below the minimum ratio,
\* or (c) the stop-loss is on the wrong side of entry for the side the signal
\* implies (LONG iff signal > 0.5), or (d) the open risk of the book together
\* with the trade's own risk would exceed balance * maxTotalRisk; and every
\* rejection carries a non-empty reason.
ValidateTradeRejections ==
    \A entryPrice \in EntryPrices, stopLoss \in ValidateStops,
       takeProfit \in ValidateTakeProfits, quantity \in ValidateQuantities,
       signal \in Signals :
        LET v == ValidateTrade(portfolio, accountBalance, entryPrice, stopLoss,
                               takeProfit, quantity, signal)
            risk == Abs(entryPrice - stopLoss)
            a == 100 * entryPrice * quantity > maxNotionalPct * accountBalance
            b == risk # 0
                 /\ 10 * Abs(takeProfit - entryPrice) < riskRewardRatioMinTenths * risk
            c == IF FLess(Half, signal) THEN stopLoss > entryPrice
                 ELSE stopLoss < entryPrice
            d == 100 * (SumRisk(portfolio) + risk * quantity)
                     > maxTotalRiskPct * accountBalance
        IN  /\ v.valid <=> ~(a \/ b \/ c \/ d)
            /\ ~v.valid => v.reason # ""

\* the sum over the book of |entryPrice - stopLoss| * quantity
RECURSIVE SumStopDistanceRisk(_)
SumStopDistanceRisk(book) ==
    IF book = <<>> THEN 0
    ELSE Abs(Head(book).entryPrice - Head(book).stopLoss) * Head(book).quantity
         + SumStopDistanceRisk(Tail(book))

\* C12: every open position has riskAmount = |entryPrice - stopLoss| * quantity,
\* also after its stop was tightened or part of it was closed, so that
\* getAccountState().totalRisk is the sum of |entryPrice - stopLoss| * quantity
\* over the open positions.
RiskAmountInvariant ==
    /\ \A i \in 1..Len(portfolio) :
          portfolio[i].riskAmount
              = Abs(portfolio[i].entryPrice - portfolio[i].stopLoss) * portfolio[i].quantity
    /\ SumRisk(portfolio) = SumStopDistanceRisk(portfolio)

\* the stop updatePosition supervises with: the position's stop, moved to the
\* trailing stop (1.2 ATR from the price) when atr is given and that is tighter
SupervisedStop(position, currentPrice, atr) ==
    IF atr = 0 THEN position.stopLoss
    ELSE IF position.side = "LONG"
    THEN Max(position.stopLoss, currentPrice - (12 * atr) \div 10)
    ELSE Min(position.stopLoss, currentPrice + (12 * atr) \div 10)

\* C13: updatePosition(id, price, atr) on an open position first refreshes the
\* trailing stop when atr is given, then closes a LONG at its stop if
\* price <= stop, otherwise at its take-profit if price >= take-profit (SHORT
\* mirrored); it returns null and the position has left the book exactly when a
\* level was hit, and the exit price realized is that level, not the price.
UpdatePositionSupervises ==
    [][(ret'.op = "updatePosition" /\ ret'.found) =>
       LET i        == IndexOf(portfolio, ret'.id)
           before   == portfolio[i]
           price    == ret'.currentPrice
           stop     == SupervisedStop(before, price, ret'.atr)
           long     == before.side = "LONG"
           stopHit  == IF long THEN price <= stop ELSE price >= stop
           tpHit    == IF long THEN price >= before.takeProfit
                       ELSE price <= before.takeProfit
           level    == IF stopHit THEN stop ELSE before.takeProfit
           pnl      == (level - before.entryPrice) * before.quantity * SideSign(before.side)
       IN  /\ i # 0
           /\ ret'.isNull <=> (stopHit \/ tpHit)
           /\ (IndexOf(portfolio', ret'.id) = 0) <=> (stopHit \/ tpHit)
           /\ (stopHit \/ tpHit) =>
                 /\ Len(portfolio') = Len(portfolio) - 1
                 /\ Len(tradeHistory') = Len(tradeHistory) + 1
                 /\ tradeHistory'[Len(tradeHistory')].exitPrice = level
                 /\ tradeHistory'[Len(tradeHistory')].pnl = pnl
                 /\ accountBalance' = accountBalance + pnl
           /\ ~(stopHit \/ tpHit) =>
                 /\ portfolio' = [portfolio EXCEPT ![i].stopLoss = stop]
                 /\ tradeHistory' = tradeHistory
                 /\ accountBalance' = accountBalance
           /\ \A k \in 1..Len(portfolio) :
                 k # i => \E j \in 1..Len(portfolio') : portfolio'[j] = portfolio[k]]_vars

\* C13 witness: updatePosition has closed a position whose stop equals the
\* current price, at that stop level
ClosedAtStopLevel ==
    /\ ret.op = "updatePosition"
    /\ ret.hit = "stop"
    /\ tradeHistory # <<>>
    /\ tradeHistory[Len(tradeHistory)].exitPrice = ret.currentPrice
    /\ tradeHistory[Len(tradeHistory)].position.stopLoss = ret.currentPrice

\* C18: every successful openPosition adds one new entry to the book: the book
\* grows by exactly one and every position that was open stays as it was, also
\* when two positions of one symbol are opened back to back; and the key of a
\* position that was fully closed is never in the book again.
PositionIdentity ==
    /\ [][(ret'.op = "openPosition" /\ ~ret'.isNull) =>
            /\ Len(portfolio') = Len(portfolio) + 1
            /\ \A k \in 1..Len(portfolio) : portfolio'[k] = portfolio[k]]_vars
    /\ [](\A h \in 1..Len(tradeHistory) :
               IndexOf(portfolio, KeyOf(tradeHistory[h].position)) = 0)

(***************************************************************************)
(* RiskManager.checkProfitTargets at prices around the tiers, between      *)
(* opens and closes.                                                       *)
(***************************************************************************)
\* prices 1% and 0.5% either side of the entry price
TargetPrices ==
    {198, 199, 201, 202}

CheckProfitTargetsAt ==
    /\ calls < MaxCalls
    /\ calls' = calls + 1
    /\ \E id \in PositionIds(portfolio), currentPrice \in TargetPrices :
        LET result == CheckProfitTargetsOp(portfolio, id, currentPrice)
            i      == IndexOf(portfolio, id)
        IN  /\ ret' = [op |-> "checkProfitTargets", id |-> id,
                       currentPrice |-> currentPrice, result |-> result]
            /\ fired' = IF result.shouldClose
                        THEN fired \cup {<<portfolio[i].uid, result.level>>}
                        ELSE fired
    /\ UNCHANGED <<riskVars, pending, ensembleVars, learnVars, botVars>>

NextTargets ==
    \/ OpenPosition
    \/ ClosePosition
    \/ CheckProfitTargetsAt

SpecTargets == Init /\ [][NextTargets]_vars

\* C14: for a position with no prior partial close checkProfitTargets returns
\* the 1% tier when the favourable move is >= 1%, the 0.5% tier when it is
\* >= 0.5% and < 1%, and no tier otherwise; over any sequence of checks and
\* partial closes each tier is returned once per position; and the call
\* changes neither the position nor anything else of the manager.
ProfitTargetTiers ==
    [][(ret'.op = "checkProfitTargets" /\ IndexOf(portfolio, ret'.id) # 0) =>
       LET position == portfolio[IndexOf(portfolio, ret'.id)]
           move     == (ret'.currentPrice - position.entryPrice) * SideSign(position.side)
           result   == ret'.result
       IN  /\ position.partialClosedQuantity = 0 =>
                 result = IF 100 * move >= position.entryPrice
                          THEN [level |-> "1%", shouldClose |-> TRUE]
                          ELSE IF 1000 * move >= 5 * position.entryPrice
                          THEN [level |-> "0.5%", shouldClose |-> TRUE]
                          ELSE [level |-> "null", shouldClose |-> FALSE]
           /\ result.shouldClose => <<position.uid, result.level>> \notin fired
           /\ UNCHANGED riskVars]_vars

(***************************************************************************)
(* MotifEnsemble.updateWeights called directly, with any partial map.      *)
(***************************************************************************)
UpdateWeights ==
    /\ weightUpdates < MaxUpdates
    /\ weightUpdates' = weightUpdates + 1
    /\ \E keys \in SUBSET MotifTypes : \E updates \in [keys -> UpdateValues] :
          weights' = UpdateWeightsOp(weights, updates)
    /\ UNCHANGED <<riskVars, ret, calls, fired, pending, learnVars, botVars>>

NextWeights ==
    UpdateWeights

SpecWeights ==
    Init /\ [][NextWeights]_vars

\* C6: after any sequence of updateWeights calls the four motif weights sum to 1
\* and every weight is a number >= 0.
WeightInvariant ==
    /\ SumWeights(weights) = Frac(1, 1)
    /\ \A m \in MotifTypes : IsFinite(weights[m]) /\ weights[m].n >= 0

(***************************************************************************)
(* TradingBot: start(), the interval timer and executeTradingCycle, which  *)
(* suspends at the fetch inside analyzeAndDecide ("analyze"), at its own   *)
(* fetch ("fetch") and at placeActualOrder ("order").  The cycle calls     *)
(* strategyEngine.checkProfitTargets, which the StrategyEngine class does  *)
(* not define: in a build that has it, it is taken to delegate to          *)
(* RiskManager.checkProfitTargets; in a build without it the call throws   *)
(* a TypeError that the cycle catches.                                     *)
(***************************************************************************)
Engine ==
    [portfolio |-> portfolio, accountBalance |-> accountBalance,
     tradeHistory |-> tradeHistory, now |-> now, openLog |-> openLog,
     pnlSum |-> pnlSum, realizedQty |-> realizedQty, weights |-> weights,
     successCounts |-> successCounts, failureCounts |-> failureCounts,
     transitions |-> transitions, qValues |-> qValues]

SetEngine(e) ==
    /\ portfolio' = e.portfolio
    /\ accountBalance' = e.accountBalance
    /\ tradeHistory' = e.tradeHistory
    /\ now' = e.now
    /\ openLog' = e.openLog
    /\ pnlSum' = e.pnlSum
    /\ realizedQty' = e.realizedQty
    /\ weights' = e.weights
    /\ successCounts' = e.successCounts
    /\ failureCounts' = e.failureCounts
    /\ transitions' = e.transitions
    /\ qValues' = e.qValues

engineVars == <<portfolio, accountBalance, tradeHistory, now, openLog, pnlSum, realizedQty,
                weights, learnVars>>

\* the loop over the positions of the book as it was when the loop began
RECURSIVE PositionChecks(_, _, _, _)
PositionChecks(e, positions, k, currentPrice) ==
    IF k > Len(positions) THEN e
    ELSE
    LET position     == positions[k]
        profitTarget == CheckProfitTargetsOp(e.portfolio, KeyOf(position), currentPrice)
        motifType    == IF profitTarget.shouldClose THEN "momentum" ELSE "trend"
    IN  PositionChecks(RecordTradeOutcomeOp(e, position.symbol, currentPrice, motifType),
                       positions, k + 1, currentPrice)

\* ExecuteWithData executing every decision that is not NEUTRAL
ExecuteWithData_EngineGateOnly(e, checksTargets, decision, marketData, createdAt) ==
    IF Len(e.portfolio) > 0 /\ ~checksTargets THEN [engine |-> e, outcome |-> "threw"]
    ELSE
    LET checked      == PositionChecks(e, e.portfolio, 1, marketData.currentPrice)
    IN  IF decision.action # "NEUTRAL"
        THEN LET x == ExecuteDecisionOp(checked, decision, BotSymbol, marketData, createdAt)
             IN  IF x.executed
                 THEN [engine |-> x.engine, outcome |-> "order"]
                 ELSE [engine |-> UpdateMotifWeightsOp(x.engine), outcome |-> "completed"]
        ELSE [engine |-> UpdateMotifWeightsOp(checked), outcome |-> "completed"]

\* the cycle once its own fetch has returned market data, up to its next await
\* or its end: "threw" (an error was caught), "order" (it awaits
\* placeActualOrder) or "completed".  Two cycles reach executeDecision at
\* least one network round trip apart, so createdAt is a later millisecond
\* than the last position's.
ExecuteWithData(e, checksTargets, decision, marketData, createdAt) ==
    IF Len(e.portfolio) > 0 /\ ~checksTargets THEN [engine |-> e, outcome |-> "threw"]
    ELSE
    LET checked      == PositionChecks(e, e.portfolio, 1, marketData.currentPrice)
        strongSignal == \/ decision.action = "LONG" /\ FLess(Frac(55, 100), decision.signal)
                        \/ decision.action = "SHORT" /\ FLess(decision.signal, Frac(45, 100))
    IN  IF decision.action # "NEUTRAL" /\ FLess(Frac(60, 100), decision.confidence)
           /\ strongSignal
        THEN LET x == ExecuteDecisionOp(checked, decision, BotSymbol, marketData, createdAt)
             IN  IF x.executed
                 THEN [engine |-> x.engine, outcome |-> "order"]
                 ELSE [engine |-> UpdateMotifWeightsOp(x.engine), outcome |-> "completed"]
        ELSE [engine |-> UpdateMotifWeightsOp(checked), outcome |-> "completed"]

ExecuteAfterFetch_FallsThrough(e, checksTargets, decision, marketData, createdAt) ==
    IF marketData = NullData
    THEN [engine |-> UpdateMotifWeightsOp(e), outcome |-> "skipped"]
    ELSE ExecuteWithData(e, checksTargets, decision, marketData, createdAt)

\* executeTradingCycle from the return of its own fetch: "skipped" when there
\* is no market data
ExecuteAfterFetch(e, checksTargets, decision, marketData, createdAt) ==
    IF marketData = NullData THEN [engine |-> e, outcome |-> "skipped"]
    ELSE ExecuteWithData(e, checksTargets, decision, marketData, createdAt)

InitBot ==
    /\ InitEngine
    /\ engineChecksTargets \in BOOLEAN
    /\ isDemoMode = FALSE

NoDecision ==
    [action |-> "NONE", signal |-> [n |-> 0, d |-> 1], confidence |-> [n |-> 0, d |-> 1]]

\* the invocation runs up to the fetch inside analyzeAndDecide
BeginCycle(initial) ==
    /\ started < MaxCycles
    /\ started' = started + 1
    /\ cycles' = Append(cycles, [pc |-> "analyze", initial |-> initial,
                                 decision |-> NoDecision, live |-> FALSE, uid |-> 0])

\* cycle i returns; start() arms the timer once its initial cycle has returned
EndCycle(i) ==
    /\ cycles' = SubSeq(cycles, 1, i - 1) \o SubSeq(cycles, i + 1, Len(cycles))
    /\ tradingLoop' = (tradingLoop \/ cycles[i].initial)
    /\ orphanTimers' = IF cycles[i].initial /\ tradingLoop THEN orphanTimers + 1
                       ELSE orphanTimers

Start ==
    /\ ~isRunning
    /\ isRunning' = TRUE
    /\ BeginCycle(TRUE)
    /\ ret' = [op |-> "start"]
    /\ UNCHANGED <<riskVars, calls, fired, pending, ensembleVars, learnVars, priceHistory, tradingLoop,
                   decisionsCount, tradesCount, errors, configVars, multiVars, clientVars, stops,
                   orphanTimers>>

TimerTick ==
    /\ tradingLoop \/ orphanTimers > 0
    /\ BeginCycle(FALSE)
    /\ ret' = [op |-> "tick"]
    /\ UNCHANGED <<riskVars, calls, fired, pending, ensembleVars, learnVars, priceHistory, isRunning,
                   tradingLoop, decisionsCount, tradesCount, errors, configVars, multiVars, clientVars,
                   stops, orphanTimers>>

AnalyzeReturnsOn(results) ==
    \E i \in 1..Len(cycles), marketData \in results :
        /\ cycles[i].pc = "analyze"
        /\ IF marketData = NullData
           THEN /\ EndCycle(i)
                /\ UNCHANGED <<priceHistory, decisionsCount>>
           ELSE /\ \E decision \in {AnalyzeAndDecideOp(Engine, marketData)} :
                      cycles' = [cycles EXCEPT ![i].pc = "fetch", ![i].decision = decision]
                /\ priceHistory' = PushPrice(priceHistory, marketData.currentPrice)
                /\ decisionsCount' = decisionsCount + 1
                /\ UNCHANGED <<tradingLoop, orphanTimers>>
        /\ ret' = [op |-> "executeTradingCycle", step |-> "analyze",
                   noData |-> marketData = NullData,
                   decision |-> IF marketData = NullData THEN NoDecision
                                ELSE AnalyzeAndDecideOp(Engine, marketData)]
        /\ UNCHANGED <<riskVars, calls, fired, pending, ensembleVars, learnVars, isRunning, tradesCount,
                       errors, configVars, multiVars, clientVars, started, stops>>

AnalyzeReturns ==
    AnalyzeReturnsOn(FetchResults)

\* FetchReturnsOn with a catch block that clears the interval timer
FetchReturnsOn_ClearsTimer(results) ==
    \E i \in 1..Len(cycles), marketData \in results :
        /\ cycles[i].pc = "fetch"
        /\ \E r \in {ExecuteAfterFetch(Engine, engineChecksTargets, cycles[i].decision,
                                      marketData, now + 1)} :
            /\ SetEngine(r.engine)
            /\ IF r.outcome = "order"
               THEN /\ cycles' = [cycles EXCEPT ![i].pc = "order", ![i].live = ~isDemoMode,
                                                ![i].uid = Len(r.engine.openLog)]
                    /\ UNCHANGED <<tradingLoop, orphanTimers>>
               ELSE IF r.outcome = "threw"
               THEN /\ cycles' = SubSeq(cycles, 1, i - 1) \o SubSeq(cycles, i + 1, Len(cycles))
                    /\ tradingLoop' = FALSE
                    /\ UNCHANGED orphanTimers
               ELSE EndCycle(i)
            /\ tradesCount' = IF r.outcome = "order" THEN tradesCount + 1 ELSE tradesCount
            /\ errors' = IF r.outcome = "threw" THEN errors + 1 ELSE errors
            /\ ret' = [op |-> "executeTradingCycle", step |-> "fetch",
                       noData |-> marketData = NullData,
                       decision |-> cycles[i].decision, outcome |-> r.outcome]
            /\ UNCHANGED <<basis, calls, fired, pending, weightUpdates, priceHistory, isRunning,
                           decisionsCount, configVars, multiVars, clientVars, started, stops>>

FetchReturnsOn(results) ==
    \E i \in 1..Len(cycles), marketData \in results :
        /\ cycles[i].pc = "fetch"
        /\ \E r \in {ExecuteAfterFetch(Engine, engineChecksTargets, cycles[i].decision,
                                      marketData, now + 1)} :
            /\ SetEngine(r.engine)
            /\ IF r.outcome = "order"
               THEN /\ cycles' = [cycles EXCEPT ![i].pc = "order", ![i].live = ~isDemoMode,
                                                ![i].uid = Len(r.engine.openLog)]
                    /\ UNCHANGED <<tradingLoop, orphanTimers>>
               ELSE EndCycle(i)
            /\ tradesCount' = IF r.outcome = "order" THEN tradesCount + 1 ELSE tradesCount
            /\ errors' = IF r.outcome = "threw" THEN errors + 1 ELSE errors
            /\ ret' = [op |-> "executeTradingCycle", step |-> "fetch",
                       noData |-> marketData = NullData,
                       decision |-> cycles[i].decision, outcome |-> r.outcome]
            /\ UNCHANGED <<basis, calls, fired, pending, weightUpdates, priceHistory, isRunning,
                           decisionsCount, configVars, multiVars, clientVars, started, stops>>

FetchReturns ==
    FetchReturnsOn(FetchResults)

(***************************************************************************)
(* BinanceAPIClient order placement.  A call in DEMO mode returns a        *)
(* simulated order; a LIVE call sends the order and awaits the exchange's  *)
(* answer: the order, or an error, which the client turns into null, and   *)
(* into DEMO mode when its code is -2015, -2014 or -1022.                  *)
(***************************************************************************)
\* what the exchange answers to an order: the order, an error with another
\* code (or no answer at all), an error with one of the three codes
ExchangeAnswers ==
    {"accepted", "failed", "denied"}

\* what the call returns: "simulated" and "order" are orders, "null" is null
OrderResult(live, answer) ==
    IF ~live THEN "simulated"
    ELSE IF answer = "accepted" THEN "order" ELSE "null"

\* DemoModeAfter falling back to DEMO mode on every failure
DemoModeAfter_AnyFailure(demo, live, answer) ==
    demo \/ (live /\ answer # "accepted")

\* isDemoMode once the call has returned
DemoModeAfter(demo, live, answer) ==
    demo \/ (live /\ answer = "denied")

\* OrderReturnsOn undoing the trade when the order failed
OrderReturnsOn_RollsBack(answers) ==
    \E i \in 1..Len(cycles), answer \in answers :
        /\ cycles[i].pc = "order"
        /\ \E e \in {UpdateMotifWeightsOp(
                         IF OrderResult(cycles[i].live, answer) = "null"
                         THEN [Engine EXCEPT !.portfolio = SelectSeq(@,
                                    LAMBDA position : position.uid # cycles[i].uid)]
                         ELSE Engine)} : SetEngine(e)
        /\ tradesCount' = IF OrderResult(cycles[i].live, answer) = "null"
                          THEN tradesCount - 1 ELSE tradesCount
        /\ isDemoMode' = DemoModeAfter(isDemoMode, cycles[i].live, answer)
        /\ EndCycle(i)
        /\ ret' = [op |-> "executeTradingCycle", step |-> "order", noData |-> FALSE,
                   order |-> OrderResult(cycles[i].live, answer), uid |-> cycles[i].uid]
        /\ UNCHANGED <<basis, calls, fired, pending, weightUpdates, priceHistory, isRunning,
                       decisionsCount, errors, configVars, multiVars, requests, started,
                       stops>>

\* placeLimitOrder returns to placeActualOrder, which returns whatever the
\* result (it catches its own errors); the cycle updates the motif weights
\* and ends
OrderReturnsOn(answers) ==
    \E i \in 1..Len(cycles), answer \in answers :
        /\ cycles[i].pc = "order"
        /\ \E e \in {UpdateMotifWeightsOp(Engine)} : SetEngine(e)
        /\ isDemoMode' = DemoModeAfter(isDemoMode, cycles[i].live, answer)
        /\ EndCycle(i)
        /\ ret' = [op |-> "executeTradingCycle", step |-> "order", noData |-> FALSE,
                   order |-> OrderResult(cycles[i].live, answer), uid |-> cycles[i].uid]
        /\ UNCHANGED <<basis, calls, fired, pending, weightUpdates, priceHistory, isRunning,
                       decisionsCount, tradesCount, errors, configVars, multiVars, requests,
                       started, stops>>

\* the exchange accepts the orders of the cycles
OrderReturns ==
    OrderReturnsOn({"accepted"})

NextBot ==
    \/ Start
    \/ TimerTick
    \/ AnalyzeReturns
    \/ FetchReturns
    \/ OrderReturns

SpecBot ==
    InitBot /\ [][NextBot]_vars

(***************************************************************************)
(* Properties of the TradingBot loop.                                      *)
(***************************************************************************)
\* C3: at any time at most one executeTradingCycle invocation is in progress:
\* a timer tick that fires while a cycle still awaits market data or order
\* placement starts no second cycle.
AtMostOneCycleInFlight ==
    Len(cycles) <= 1

\* the last step was a fetch of a cycle returning null
SkippedOnNoData ==
    ret.op = "executeTradingCycle" /\ ret.noData

\* C7: when a fetch of a cycle returns null, in analyzeAndDecide or in the
\* cycle itself, the cycle ends there without an error, and neither that step
\* nor the steps of the cycle before it (its start, its analysis) change the
\* position book, the balance, the motif weights, the Bayesian counters, the
\* Markov table or the Q-table.
NullDataSkipIsNoOp ==
    [][/\ (ret'.op = "executeTradingCycle" /\ ret'.noData) =>
            /\ Len(cycles') = Len(cycles) - 1
            /\ errors' = errors
       /\ (\/ ret'.op \in {"start", "tick"}
           \/ ret'.op = "executeTradingCycle" /\ (ret'.step = "analyze" \/ ret'.noData)) =>
            UNCHANGED <<portfolio, accountBalance, weights, successCounts, failureCounts,
                        transitions, qValues>>]_vars

\* C7 witness: the cycle's own fetch returned null after a successful analysis,
\* with a position in the book and motif weights already updated by an
\* earlier cycle
SkippedWithOpenPosition ==
    /\ SkippedOnNoData
    /\ ret.step = "fetch"
    /\ Len(portfolio) > 0
    /\ weights # InitialWeights

(***************************************************************************)
(* StrategyEngine called by its callers (the bot cycle, part_004:392-435,  *)
(* and the paper-simulate loop, strategy-engine.ts:737-749): a caller      *)
(* awaits analyzeAndDecide, awaits a fetch of its own, and passes the      *)
(* decision to executeDecision.  Callers are served concurrently, so       *)
(* several decisions can be waiting for their executeDecision.             *)
(***************************************************************************)
EngineAnalyze ==
    /\ calls < MaxEngineCalls
    /\ calls' = calls + 1
    /\ \E marketData \in FetchResults :
        IF marketData = NullData
        THEN /\ ret' = [op |-> "analyzeAndDecide", isNull |-> TRUE]
             /\ UNCHANGED <<pending, priceHistory>>
        ELSE \E decision \in {AnalyzeAndDecideOp(Engine, marketData)} :
             /\ ret' = [op |-> "analyzeAndDecide", isNull |-> FALSE, decision |-> decision]
             /\ pending' = Append(pending, decision)
             /\ priceHistory' = PushPrice(priceHistory, marketData.currentPrice)
    /\ UNCHANGED <<riskVars, fired, ensembleVars, learnVars, isRunning, tradingLoop, cycles,
                   decisionsCount, tradesCount, errors, configVars, multiVars, clientVars, started, stops,
                   orphanTimers>>

EngineExecute ==
    /\ calls < MaxEngineCalls
    /\ calls' = calls + 1
    /\ \E k \in 1..Len(pending), marketData \in MarketDatas :
        \E r \in {ExecuteDecisionOp(Engine, pending[k], BotSymbol, marketData, now + 1)} :
            /\ SetEngine(r.engine)
            /\ pending' = SubSeq(pending, 1, k - 1) \o SubSeq(pending, k + 1, Len(pending))
            /\ ret' = [op |-> "executeDecision", isNull |-> ~r.executed,
                       decision |-> pending[k]]
    /\ UNCHANGED <<basis, fired, weightUpdates, botVars>>

NextEngine ==
    \/ EngineAnalyze
    \/ EngineExecute

SpecEngine == Init /\ [][NextEngine]_vars

\* the book holds a LONG and a SHORT position at the same time
OpposingPositions(book) ==
    \E i, j \in 1..Len(book) : book[i].side = "LONG" /\ book[j].side = "SHORT"

\* the last step was the return of analyzeAndDecide with a decision
Analyzed ==
    ret.op = "analyzeAndDecide" /\ ~ret.isNull

\* C15: when analyzeAndDecide classifies LONG or SHORT while any position of
\* the book has the opposite side, it returns CLOSE_POSITION; and the book
\* never holds a LONG and a SHORT position at the same time.
ReversalHandling ==
    /\ [][Analyzed' =>
            LET action == Classify(ret'.decision.signal, ret'.decision.confidence)
            IN  (\E i \in 1..Len(portfolio) :
                    \/ action = "LONG" /\ portfolio[i].side = "SHORT"
                    \/ action = "SHORT" /\ portfolio[i].side = "LONG")
                => ret'.decision.action = "CLOSE_POSITION"]_vars
    /\ [](~OpposingPositions(portfolio))

(***************************************************************************)
(* The TradingBot loop on market data that gives strong, weak and neutral  *)
(* decisions.                                                              *)
(***************************************************************************)
GateDatas ==
    {[currentPrice |-> 200, atr14 |-> 25, reading |-> "bullish"],
     [currentPrice |-> 200, atr14 |-> 25, reading |-> "mild"],
     [currentPrice |-> 200, atr14 |-> 25, reading |-> "none"]}

NextGate ==
    \/ Start
    \/ TimerTick
    \/ AnalyzeReturnsOn(GateDatas)
    \/ FetchReturnsOn(GateDatas)
    \/ OrderReturns

SpecGate == InitBot /\ [][NextGate]_vars

\* the bot loop's gate on a decision: a LONG or SHORT with confidence > 0.60
\* and signal > 0.55 (LONG) or < 0.45 (SHORT)
PassesBotGate(decision) ==
    /\ decision.action \in {"LONG", "SHORT"}
    /\ FLess(Frac(60, 100), decision.confidence)
    /\ \/ decision.action = "LONG" /\ FLess(Frac(55, 100), decision.signal)
       \/ decision.action = "SHORT" /\ FLess(decision.signal, Frac(45, 100))

\* the last step was a cycle running on from the return of its own fetch
FetchReturned ==
    ret.op = "executeTradingCycle" /\ ret.step = "fetch"

ClassifySignals ==
    {0, 30, 41, 42, 43, 47, 48, 49, 50, 51, 52, 53, 57, 58, 59, 70, 100}

ClassifyConfidences ==
    {0, 30, 39, 40, 41, 60, 100}

ClassifyCall ==
    /\ \E s \in ClassifySignals, c \in ClassifyConfidences :
          ret' = [op |-> "classify", signal |-> Frac(s, 100), confidence |-> Frac(c, 100),
                  action |-> Classify(Frac(s, 100), Frac(c, 100))]
    /\ UNCHANGED <<riskVars, calls, fired, pending, ensembleVars, learnVars, botVars>>

NextClassify == ClassifyCall

SpecClassify == Init /\ [][NextClassify]_vars

\* C17: for signal s and confidence c the action is LONG if s > 0.58 and
\* c > 0.4; SHORT if s < 0.42 and c > 0.4; otherwise LONG if 0.52 < s <= 0.58;
\* otherwise SHORT if 0.42 <= s < 0.48; and NEUTRAL in every other case.
ActionClassification ==
    ret.op = "classify" =>
        LET s == ret.signal
            c == ret.confidence
        IN  ret.action =
              IF 100 * s.n > 58 * s.d /\ 10 * c.n > 4 * c.d THEN "LONG"
              ELSE IF 100 * s.n < 42 * s.d /\ 10 * c.n > 4 * c.d THEN "SHORT"
              ELSE IF 100 * s.n > 52 * s.d /\ 100 * s.n <= 58 * s.d THEN "LONG"
              ELSE IF 100 * s.n >= 42 * s.d /\ 100 * s.n < 48 * s.d THEN "SHORT"
              ELSE "NEUTRAL"

\* C17 witness: a signal beyond the weak bands with a confidence of at most
\* 0.4 was classified NEUTRAL
StrongSignalLowConfidence ==
    /\ ret.op = "classify"
    /\ 100 * ret.signal.n < 42 * ret.signal.d
    /\ 10 * ret.confidence.n <= 4 * ret.confidence.d
    /\ ret.action = "NEUTRAL"

(***************************************************************************)
(* TradingBot.stop() beside the running loop.  stop() clears the flag and  *)
(* the timer whose handle tradingLoop holds, takes a snapshot of the open  *)
(* positions and, for each of them, awaits binanceClient.getCurrentPrice   *)
(* and records the trade outcome at that price; the cycles in progress     *)
(* and the start() awaiting its initial cycle go on meanwhile.             *)
(***************************************************************************)
\* stop() calls explored
MaxStops == 1

\* what getCurrentPrice resolves to: 0 stands for null (and NaN), which stop() skips
StopPrices ==
    {0, 200}

\* stop() runs up to its first await, or to its end when the book is empty
StopCalled ==
    /\ calls < MaxStops
    /\ calls' = calls + 1
    /\ isRunning
    /\ isRunning' = FALSE
    /\ tradingLoop' = FALSE
    /\ stops' = IF Len(portfolio) = 0 THEN stops ELSE Append(stops, portfolio)
    /\ ret' = [op |-> "stop", returned |-> Len(portfolio) = 0]
    /\ UNCHANGED <<riskVars, fired, pending, ensembleVars, learnVars, priceHistory, cycles,
                   decisionsCount, tradesCount, errors, configVars, multiVars, clientVars, started,
                   orphanTimers>>

\* getCurrentPrice resolves for the position stop() number s is at
StopPriceReturns ==
    \E s \in 1..Len(stops), currentPrice \in StopPrices :
        /\ \E e \in {IF currentPrice # 0
                      THEN RecordTradeOutcomeOp(Engine, Head(stops[s]).symbol, currentPrice,
                                                "trend")
                      ELSE Engine} : SetEngine(e)
        /\ stops' = IF Len(stops[s]) = 1
                    THEN SubSeq(stops, 1, s - 1) \o SubSeq(stops, s + 1, Len(stops))
                    ELSE [stops EXCEPT ![s] = Tail(@)]
        /\ ret' = [op |-> "stop", returned |-> Len(stops[s]) = 1]
        /\ UNCHANGED <<basis, calls, fired, pending, weightUpdates, priceHistory, isRunning,
                       tradingLoop, cycles, decisionsCount, tradesCount, errors,
                       configVars, multiVars, clientVars, started, orphanTimers>>

\* the loop with market data that every fetch returns, and stop()
NextStop ==
    \/ Start
    \/ TimerTick
    \/ AnalyzeReturnsOn(MarketDatas)
    \/ FetchReturnsOn(MarketDatas)
    \/ OrderReturns
    \/ StopCalled
    \/ StopPriceReturns

SpecStop ==
    InitBot /\ [][NextStop]_vars

\* stop() has been called, every stop() has returned, and start() has not been
\* called since
Stopped ==
    started > 0 /\ ~isRunning /\ stops = <<>>

\* C19: once stop() has returned, no cycle changes the position book any
\* more (a cycle in flight at the stop has made its changes before stop()
\* finished closing, or makes none), no position is opened and no order is
\* placed.
CleanCancellation ==
    [][Stopped =>
          /\ portfolio' = portfolio
          /\ openLog' = openLog
          /\ ~(ret'.op = "executeTradingCycle" /\ ret'.step = "fetch"
                  /\ ret'.outcome = "order")]_vars

\* C34: under any interleaving of start() and stop(), at most one interval
\* timer is armed, a timer is armed only while isRunning is true, and once
\* stop() has returned, with no start() after it, no timer tick starts a
\* cycle.
TimerFollowsRunningFlag ==
    /\ [](/\ (IF tradingLoop THEN 1 ELSE 0) + orphanTimers <= 1
          /\ (tradingLoop \/ orphanTimers > 0) => isRunning)
    /\ [][Stopped => ret'.op # "tick"]_vars

(***************************************************************************)
(* The loop after an error inside a cycle.                                 *)
(***************************************************************************)
\* the last step was a cycle catching an error
CycleThrew ==
    ret.op = "executeTradingCycle" /\ ret.step = "fetch" /\ ret.outcome = "threw"

\* C20: when a step of a cycle throws, executeTradingCycle catches the error
\* and returns: the error is logged, the invocation is over, isRunning stays
\* true and the interval timer is armed after it (it stays armed, or start()
\* arms it after the initial cycle); a timer tick is then possible, and every
\* timer tick starts a new cycle.
LoopSurvival ==
    /\ [][CycleThrew' =>
             /\ errors' = errors + 1
             /\ Len(cycles') = Len(cycles) - 1
             /\ isRunning /\ isRunning'
             /\ tradingLoop => tradingLoop'
             /\ tradingLoop']_vars
    /\ [][ret'.op = "tick" =>
             /\ Len(cycles') = Len(cycles) + 1
             /\ cycles'[Len(cycles')].pc = "analyze"]_vars
    /\ []((errors > 0 /\ started < MaxCycles) => ENABLED TimerTick)

\* C20 witness: a timer tick has started a new cycle after a cycle threw
TickAfterError ==
    /\ ret.op = "tick"
    /\ errors > 0
    /\ isRunning
    /\ tradingLoop

(***************************************************************************)
(* The bot loop with an exchange that accepts, fails or denies the orders. *)
(***************************************************************************)
NextOrders ==
    \/ Start
    \/ TimerTick
    \/ AnalyzeReturnsOn(GateDatas)
    \/ FetchReturnsOn(GateDatas)
    \/ OrderReturnsOn(ExchangeAnswers)

SpecOrders == InitBot /\ [][NextOrders]_vars

\* the last step was placeLimitOrder returning null to a cycle
OrderFailed ==
    ret.op = "executeTradingCycle" /\ ret.step = "order" /\ ret.order = "null"

\* C21: a cycle that executes its decision has the position in the book and
\* the trade counted while its order is still awaited; when placeLimitOrder
\* then returns null, the book and tradesCount stay as they are (no removal,
\* no rollback) and the cycle ends without an error.
OrderFailureLeavesBook ==
    [][/\ (FetchReturned' /\ ret'.outcome = "order") =>
            /\ Len(openLog') = Len(openLog) + 1
            /\ \E k \in 1..Len(portfolio') : portfolio'[k].uid = Len(openLog')
            /\ tradesCount' = tradesCount + 1
            /\ \E i \in 1..Len(cycles') :
                   cycles'[i].pc = "order" /\ cycles'[i].uid = Len(openLog')
       /\ OrderFailed' =>
            /\ portfolio' = portfolio
            /\ accountBalance' = accountBalance
            /\ tradesCount' = tradesCount
            /\ errors' = errors
            /\ Len(cycles') = Len(cycles) - 1]_vars

\* C21 witness: the order of a cycle has failed and the position that cycle
\* opened is still in the book, counted as a trade
FailedOrderPositionOpen ==
    /\ OrderFailed
    /\ \E k \in 1..Len(portfolio) : portfolio[k].uid = ret.uid
    /\ tradesCount > 0

(***************************************************************************)
(* BinanceAPIClient.placeLimitOrder, placeMarketOrder and setDemoMode      *)
(* called directly, several calls at a time.  A call runs up to its first  *)
(* await: the order request of a LIVE call, the ticker request            *)
(* (getCurrentPrice) of a DEMO market order; a DEMO limit order awaits     *)
(* nothing.                                                                *)
(***************************************************************************)
\* order calls explored
MaxOrders == 3

OrderKinds ==
    {"placeLimitOrder", "placeMarketOrder"}

InitClient ==
    /\ InitEngine
    /\ engineChecksTargets = TRUE
    /\ isDemoMode \in BOOLEAN

\* what the call sends to the exchange before it first awaits
SentBy(kind, demo) ==
    IF ~demo THEN "order"
    ELSE IF kind = "placeMarketOrder" THEN "ticker" ELSE "none"

PlaceOrderCalled ==
    \E kind \in OrderKinds :
        /\ calls < MaxOrders
        /\ calls' = calls + 1
        /\ IF SentBy(kind, isDemoMode) = "none"
           THEN /\ ret' = [op |-> kind, step |-> "return", demo |-> TRUE, sent |-> "none",
                           answer |-> "none", result |-> OrderResult(FALSE, "none")]
                /\ UNCHANGED requests
           ELSE /\ ret' = [op |-> kind, step |-> "call", demo |-> isDemoMode,
                           sent |-> SentBy(kind, isDemoMode), answer |-> "none",
                           result |-> "none"]
                /\ requests' = Append(requests, [op |-> kind, live |-> ~isDemoMode])
        /\ UNCHANGED <<riskVars, fired, pending, ensembleVars, learnVars, loopVars, isDemoMode>>

\* the exchange answers request k, or the request fails, and the call returns
ExchangeAnswered ==
    \E k \in 1..Len(requests), answer \in ExchangeAnswers :
        /\ requests' = SubSeq(requests, 1, k - 1) \o SubSeq(requests, k + 1, Len(requests))
        /\ isDemoMode' = DemoModeAfter(isDemoMode, requests[k].live, answer)
        /\ ret' = [op |-> requests[k].op, step |-> "return", demo |-> ~requests[k].live,
                   sent |-> "none", answer |-> IF requests[k].live THEN answer ELSE "none",
                   result |-> OrderResult(requests[k].live, answer)]
        /\ UNCHANGED <<riskVars, calls, fired, pending, ensembleVars, learnVars, loopVars>>

SetDemoMode ==
    \E demo \in BOOLEAN :
        /\ calls < MaxOrders
        /\ calls' = calls + 1
        /\ isDemoMode' = demo
        /\ ret' = [op |-> "setDemoMode", step |-> "return", demo |-> demo, sent |-> "none",
                   answer |-> "none", result |-> "none"]
        /\ UNCHANGED <<riskVars, fired, pending, ensembleVars, learnVars, loopVars, requests>>

NextClient ==
    \/ PlaceOrderCalled
    \/ ExchangeAnswered
    \/ SetDemoMode

SpecClient == InitClient /\ [][NextClient]_vars

\* the last step was a step of an order call
OrderStep ==
    ret.op \in OrderKinds

\* what C22 says of the failures of LIVE calls and of the results of the calls
\* made in DEMO mode
DemoFallback ==
    /\ (OrderStep' /\ ret'.answer = "denied") =>
            ret'.result = "null" /\ isDemoMode'
    /\ (OrderStep' /\ ret'.answer = "failed") =>
            ret'.result = "null" /\ isDemoMode' = isDemoMode
    /\ (OrderStep' /\ ret'.demo /\ ret'.step = "return") =>
            ret'.result = "simulated"
    /\ (~OrderStep' /\ ret'.op # "setDemoMode") => isDemoMode' = isDemoMode
    /\ (isDemoMode /\ ~isDemoMode') => (ret'.op = "setDemoMode" /\ ~ret'.demo)

\* C22 as stated: after a LIVE order call fails with code -2015, -2014 or
\* -1022 the call returns null and the client is in DEMO mode; every order
\* call made in DEMO mode returns a simulated order and sends nothing to the
\* exchange; only setDemoMode(false) leaves DEMO mode; any other failure
\* returns null and leaves the mode as it is.
DemoModeNeverContacts ==
    [][/\ DemoFallback
       /\ (OrderStep' /\ ret'.demo) => ret'.sent = "none"]_vars

\* C22 amended: the same, except that a call made in DEMO mode sends no order
\* to the exchange (placeMarketOrder still asks the exchange for the price).
DemoModeSendsNoOrder ==
    [][/\ DemoFallback
       /\ (OrderStep' /\ ret'.demo) => ret'.sent # "order"]_vars

\* C22 witness: a LIVE order has been denied and has put the client in DEMO
\* mode while a market order placed in DEMO mode earlier, before a
\* setDemoMode(false), awaits its price
DeniedOrderSwitchedToDemo ==
    /\ OrderStep
    /\ ret.answer = "denied"
    /\ ret.result = "null"
    /\ isDemoMode
    /\ \E k \in 1..Len(requests) : ~requests[k].live

(***************************************************************************)
(* StrategyEngine.recordTradeOutcome called directly on books that         *)
(* openPosition has filled.                                                *)
(***************************************************************************)
OutcomeSymbols ==
    {"ETHUSDT", "BTCUSDT"}

OutcomePrices ==
    {190, 200, 230}

\* the motif types the callers pass
OutcomeMotifs ==
    {"trend", "momentum"}

RecordTradeOutcome ==
    /\ calls < MaxCalls
    /\ calls' = calls + 1
    /\ \E symbol \in OutcomeSymbols, exitPrice \in OutcomePrices, motifType \in OutcomeMotifs :
        /\ \E e \in {RecordTradeOutcomeOp(Engine, symbol, exitPrice, motifType)} :
               SetEngine(e)
        /\ ret' = [op |-> "recordTradeOutcome", symbol |-> symbol, exitPrice |-> exitPrice,
                   motifType |-> motifType]
    /\ UNCHANGED <<basis, fired, pending, weightUpdates, botVars>>

NextOutcome ==
    \/ OpenPosition
    \/ RecordTradeOutcome

SpecOutcome == Init /\ [][NextOutcome]_vars

\* the number of outcomes the counters c hold
CountTotal(c) ==
    c["trend"] + c["momentum"] + c["volatility"] + c["sentiment"]

\* C23: recordTradeOutcome(symbol, exitPrice, motifType) with an open position
\* for symbol records one outcome for motifType, a success exactly when the
\* realized PnL is > 0, and fully closes one position of the symbol: the book
\* has one entry less, the others stay, and the balance changes by the PnL;
\* with no open position for symbol it changes neither the book, the balance
\* nor the learning state.
RecordTradeOutcomeFeedback ==
    [][ret'.op = "recordTradeOutcome" =>
        LET i == FirstWithSymbol(portfolio, ret'.symbol)
        IN  IF i = 0
            THEN UNCHANGED <<portfolio, accountBalance, tradeHistory, learnVars, weights>>
            ELSE LET position == portfolio[i]
                     pnl == (ret'.exitPrice - position.entryPrice) * position.quantity
                                * SideSign(position.side)
                     m   == ret'.motifType
                 IN  /\ Len(portfolio') = Len(portfolio) - 1
                     /\ \E k \in 1..Len(portfolio) :
                            /\ portfolio[k].symbol = ret'.symbol
                            /\ portfolio' = SubSeq(portfolio, 1, k - 1)
                                                \o SubSeq(portfolio, k + 1, Len(portfolio))
                     /\ accountBalance' = accountBalance + pnl
                     /\ successCounts' = IF pnl > 0
                                         THEN [successCounts EXCEPT ![m] = @ + 1]
                                         ELSE successCounts
                     /\ failureCounts' = IF pnl > 0 THEN failureCounts
                                         ELSE [failureCounts EXCEPT ![m] = @ + 1]]_vars

\* C23 witness: a trade that broke even was recorded as a failure and closed,
\* and another position of the symbol is still open
BreakEvenRecorded ==
    /\ ret.op = "recordTradeOutcome"
    /\ ret.exitPrice = 200
    /\ CountTotal(failureCounts) = 1
    /\ Len(tradeHistory) = 1
    /\ Len(portfolio) = 1

(***************************************************************************)
(* RiskManager configuration and sizing called directly: setAtrMultiplier, *)
(* getAtrMultiplier and the pure calculations, on exact fractions.         *)
(***************************************************************************)
\* calls explored
MaxSteps == 3

\* -Infinity, -2, -1/2, 0, 1/2, 1, 1.2, 2, 3 and Infinity (the route that calls
\* the setter turns NaN away)
MultiplierInputs ==
    {Frac(-1, 0), Frac(-2, 1), Frac(-1, 2), Frac(0, 1), Frac(1, 2), Frac(1, 1),
     Frac(6, 5), Frac(2, 1), Frac(3, 1), Frac(1, 0)}

\* x > 0 and x <= 0 on numbers, infinite ones included
FPositive(x) ==
    x.n > 0

FNotPositive(x) ==
    ~IsNaN(x) /\ x.n <= 0

\* SetAtrMultiplierOp storing every value but 0
SetAtrMultiplierOp_ZeroOnly(current, mult) ==
    IF mult.n = 0 THEN current ELSE mult

\* the multiplier after setAtrMultiplier(mult)
SetAtrMultiplierOp(current, mult) ==
    IF FNotPositive(mult) THEN current ELSE mult

ConfigFrame ==
    /\ calls < MaxSteps
    /\ calls' = calls + 1
    /\ UNCHANGED <<riskVars, fired, pending, ensembleVars, learnVars, engineChecksTargets,
                   multiVars, priceHistory, isRunning, tradingLoop, cycles, decisionsCount, tradesCount,
                   errors, started, stops, orphanTimers, clientVars>>

SetAtrMultiplier ==
    \E mult \in MultiplierInputs :
        /\ ConfigFrame
        /\ atrMultiplier' = SetAtrMultiplierOp(atrMultiplier, mult)
        /\ ret' = [op |-> "setAtrMultiplier", mult |-> mult]

GetAtrMultiplier ==
    /\ ConfigFrame
    /\ ret' = [op |-> "getAtrMultiplier", result |-> atrMultiplier]
    /\ UNCHANGED atrMultiplier

(***************************************************************************)
(* calculateStopLoss, calculateTakeProfit and calculatePositionSize on     *)
(* exact fractions of a dollar (quantities in hundredths of a coin), with  *)
(* parseFloat(x.toFixed(8)) as the rounding to eight decimals that it is.  *)
(***************************************************************************)
\* parseFloat(x.toFixed(8)): x rounded to the nearest multiple of 10^-8, halves
\* away from zero; Infinity, -Infinity and NaN come back as they are
ToFixed8(x) ==
    IF ~IsFinite(x) THEN x
    ELSE LET magnitude == Frac(Abs(x.n), x.d)
             whole     == magnitude.n \div magnitude.d
             rest      == Frac(magnitude.n % magnitude.d, magnitude.d)
             units     == FFloor(FAdd(FMul(rest, Frac(100000000, 1)), Half))
             rounded   == FAdd(Frac(whole, 1), Frac(units, 100000000))
         IN  Frac(Sign(x.n) * rounded.n, rounded.d)

FNeg(x) ==
    Frac(-x.n, x.d)

\* calculateStopLoss; hasAtr is the code's `if (atr)`
CalculateStopLossOp(mult, entryPrice, signal, volatility, hasAtr, atr) ==
    LET direction == IF FLess(Half, signal) THEN Frac(1, 1) ELSE Frac(-1, 1)
        stopLossPercent == FAdd(Frac(2, 100), FMul(volatility, Frac(3, 100)))
    IN  IF hasAtr
        THEN ToFixed8(FAdd(entryPrice, FNeg(FMul(direction, FMul(atr, mult)))))
        ELSE ToFixed8(FMul(entryPrice,
                           FAdd(Frac(1, 1), FNeg(FMul(direction, stopLossPercent)))))

\* calculateTakeProfit
CalculateTakeProfitOp(entryPrice, stopLoss, riskRewardRatio) ==
    LET difference   == FAdd(entryPrice, FNeg(stopLoss))
        riskAmount   == Frac(Abs(difference.n), difference.d)
        rewardAmount == FMul(riskAmount, riskRewardRatio)
        direction    == IF FLess(stopLoss, entryPrice) THEN Frac(1, 1) ELSE Frac(-1, 1)
    IN  ToFixed8(FAdd(entryPrice, FMul(direction, rewardAmount)))

\* entryPrice, whether atr is given, and atr: 100 without ATR and with ATR 5;
\* 0.0000001 without ATR and with ATR 0.000000004
StopLossCases ==
    {<<Frac(100, 1), FALSE, Frac(0, 1)>>, <<Frac(100, 1), TRUE, Frac(5, 1)>>,
     <<Frac(1, 10000000), FALSE, Frac(0, 1)>>,
     <<Frac(1, 10000000), TRUE, Frac(4, 1000000000)>>}

\* 0 and 0.5
StopLossVolatilities == {Frac(0, 1), Frac(1, 2)}

CalculateStopLossCall ==
    \E case \in StopLossCases, signal \in Signals, volatility \in StopLossVolatilities :
        /\ ConfigFrame
        /\ ret' = [op |-> "calculateStopLoss", entryPrice |-> case[1], signal |-> signal,
                   volatility |-> volatility, hasAtr |-> case[2], atr |-> case[3],
                   result |-> CalculateStopLossOp(atrMultiplier, case[1], signal,
                                                  volatility, case[2], case[3])]
        /\ UNCHANGED atrMultiplier

NextConfig ==
    \/ SetAtrMultiplier
    \/ GetAtrMultiplier
    \/ CalculateStopLossCall

SpecConfig == Init /\ [][NextConfig]_vars

\* C24: setAtrMultiplier(m) with m <= 0 returns at once and leaves the
\* multiplier, which getAtrMultiplier returns, as it was; with m > 0 the
\* multiplier becomes m; the multiplier is > 0 in every state.
AtrMultiplierConfig ==
    /\ [][/\ (ret'.op = "setAtrMultiplier" /\ FNotPositive(ret'.mult)) =>
                atrMultiplier' = atrMultiplier
          /\ (ret'.op = "setAtrMultiplier" /\ FPositive(ret'.mult)) =>
                atrMultiplier' = ret'.mult
          /\ ret'.op = "getAtrMultiplier" =>
                (ret'.result = atrMultiplier /\ atrMultiplier' = atrMultiplier)]_vars
    /\ [](FPositive(atrMultiplier))

\* C24 witness: the third call is a getAtrMultiplier that returns 3, a
\* multiplier set by an earlier call
RejectedThenRead ==
    /\ ret.op = "getAtrMultiplier"
    /\ ret.result = Frac(3, 1)
    /\ calls = 3

\* x < y on numbers, infinite ones included
FBelow(x, y) ==
    /\ ~IsNaN(x) /\ ~IsNaN(y)
    /\ \/ FLess(x, y)
       \/ (~IsFinite(x) /\ x.n < 0 /\ (IsFinite(y) \/ y.n > 0))
       \/ (~IsFinite(y) /\ y.n > 0 /\ IsFinite(x))

\* C26: for entryPrice > 0 and volatility >= 0, with ATR positive or absent,
\* calculateStopLoss returns a stop strictly below the entry when signal >
\* 0.5 and strictly above it otherwise, at distance ATR * atrMultiplier when
\* ATR is given and entryPrice * (2% + volatility * 3%) when it is not.
StopLossPlacement ==
    ret.op = "calculateStopLoss" =>
        LET long     == FLess(Half, ret.signal)
            distance == IF ret.hasAtr THEN FMul(ret.atr, atrMultiplier)
                        ELSE FMul(ret.entryPrice,
                                  FAdd(Frac(2, 100), FMul(ret.volatility, Frac(3, 100))))
        IN  /\ IF long THEN FBelow(ret.result, ret.entryPrice)
               ELSE FBelow(ret.entryPrice, ret.result)
            /\ ret.result = FAdd(ret.entryPrice, IF long THEN FNeg(distance) ELSE distance)

\* CalculatePositionSizeOp without the cap on the position value
CalculatePositionSizeOp_NoCap(balance, entryPrice, stopLoss, signal, confidence, volatility, sentimentRiskAdjustment) ==
    LET riskPerTrade == Frac(balance * 15, 1000)
        priceRisk    == Abs(entryPrice - stopLoss)
        byRisk       == FDiv(riskPerTrade, Frac(priceRisk, 1))
        byConfidence == FAdd(Frac(4, 10), FMul(confidence, Frac(6, 10)))
        distance     == FAdd(signal, Frac(-1, 2))
        signalStrength == FMul(Frac(Abs(distance.n), distance.d), Frac(2, 1))
        bySignal     == FAdd(Frac(6, 10), FMul(signalStrength, Frac(4, 10)))
        byVolatility == FAdd(Frac(1, 1), FNeg(FMul(volatility, Frac(25, 100))))
        factors      == <<byRisk, byConfidence, bySignal, byVolatility,
                          sentimentRiskAdjustment>>
        isZero       == \E f \in 1..Len(factors) : factors[f].n = 0
        numerator    == BigProduct([f \in 1..Len(factors) |-> factors[f].n])
        denominator  == BigProduct([f \in 1..Len(factors) |-> factors[f].d])
        AtLeast(k)   == k = 0 \/ (~isZero /\ ~BigLess(numerator, BigTimes(denominator, k, 0)))
        maxPositionValue == Frac(balance * 25, 1000)
        maxQuantity  == FFloor(FDiv(maxPositionValue, Frac(entryPrice, 1)))
        Largest(bound) == CHOOSE k \in 0..bound : AtLeast(k) /\ ~AtLeast(k + 1)
    IN  IF priceRisk = 0 \/ entryPrice = 0 THEN 0
        ELSE Largest(200 * maxQuantity)

\* calculatePositionSize with every argument given, for whole-dollar prices
\* and factors in their ranges; the floor of the smaller of the product and
\* the cap is found as in CalculatePositionSize
CalculatePositionSizeOp(balance, entryPrice, stopLoss, signal, confidence, volatility, sentimentRiskAdjustment) ==
    LET riskPerTrade == Frac(balance * 15, 1000)
        priceRisk    == Abs(entryPrice - stopLoss)
        byRisk       == FDiv(riskPerTrade, Frac(priceRisk, 1))
        byConfidence == FAdd(Frac(4, 10), FMul(confidence, Frac(6, 10)))
        distance     == FAdd(signal, Frac(-1, 2))
        signalStrength == FMul(Frac(Abs(distance.n), distance.d), Frac(2, 1))
        bySignal     == FAdd(Frac(6, 10), FMul(signalStrength, Frac(4, 10)))
        byVolatility == FAdd(Frac(1, 1), FNeg(FMul(volatility, Frac(25, 100))))
        factors      == <<byRisk, byConfidence, bySignal, byVolatility,
                          sentimentRiskAdjustment>>
        isZero       == \E f \in 1..Len(factors) : factors[f].n = 0
        numerator    == BigProduct([f \in 1..Len(factors) |-> factors[f].n])
        denominator  == BigProduct([f \in 1..Len(factors) |-> factors[f].d])
        AtLeast(k)   == k = 0 \/ (~isZero /\ ~BigLess(numerator, BigTimes(denominator, k, 0)))
        maxPositionValue == Frac(balance * 25, 1000)
        maxQuantity  == FFloor(FDiv(maxPositionValue, Frac(entryPrice, 1)))
        Largest(bound) == CHOOSE k \in 0..bound : AtLeast(k) /\ ~AtLeast(k + 1)
    IN  IF priceRisk = 0 \/ entryPrice = 0 THEN 0
        ELSE IF AtLeast(maxQuantity) THEN maxQuantity
        ELSE Largest(maxQuantity)

SizingEntries == {0, 200}

SizingStops == {170, 199, 200}

\* 0.5 and 0.7
SizingSignals == {Frac(1, 2), Frac(7, 10)}

SizingConfidences == {Frac(0, 1), Frac(1, 1)}

SizingVolatilities == {Frac(0, 1), Frac(1, 1)}

\* 0, 0.5 and 1.2
SentimentAdjustments == {Frac(0, 1), Frac(1, 2), Frac(6, 5)}

\* entry and stop: 100 with 98, 100 and 102; 0.0000001 with 0.00000009,
\* 0.0000001 and 0.00000011
TakeProfitLevelPairs ==
    {<<Frac(100, 1), Frac(98, 1)>>, <<Frac(100, 1), Frac(100, 1)>>,
     <<Frac(100, 1), Frac(102, 1)>>,
     <<Frac(1, 10000000), Frac(9, 100000000)>>,
     <<Frac(1, 10000000), Frac(1, 10000000)>>,
     <<Frac(1, 10000000), Frac(11, 100000000)>>}

\* 0.4, 1.3 and 2.5
RewardRatios == {Frac(2, 5), Frac(13, 10), Frac(5, 2)}

SizingFrame ==
    UNCHANGED <<riskVars, calls, fired, pending, ensembleVars, learnVars, botVars>>

CalculatePositionSizeCall ==
    \E entryPrice \in SizingEntries, stopLoss \in SizingStops, signal \in SizingSignals,
       confidence \in SizingConfidences, volatility \in SizingVolatilities,
       sentimentRiskAdjustment \in SentimentAdjustments :
        /\ ret' = [op |-> "calculatePositionSize", entryPrice |-> entryPrice,
                   stopLoss |-> stopLoss,
                   args |-> <<signal, confidence, volatility, sentimentRiskAdjustment>>,
                   result |-> CalculatePositionSizeOp(accountBalance, entryPrice, stopLoss,
                                  signal, confidence, volatility, sentimentRiskAdjustment)]
        /\ SizingFrame

CalculateTakeProfitCall ==
    \E levels \in TakeProfitLevelPairs, riskRewardRatio \in RewardRatios :
        /\ ret' = [op |-> "calculateTakeProfit", entryPrice |-> levels[1],
                   stopLoss |-> levels[2], args |-> <<riskRewardRatio>>,
                   result |-> CalculateTakeProfitOp(levels[1], levels[2], riskRewardRatio)]
        /\ SizingFrame

NextSizing ==
    \/ CalculatePositionSizeCall
    \/ CalculateTakeProfitCall

SpecSizing == Init /\ [][NextSizing]_vars

\* C25: for stopLoss # entryPrice and ratio > 0, calculateTakeProfit returns
\* entryPrice + d * |entryPrice - stopLoss| * ratio, d = +1 if entryPrice >
\* stopLoss and -1 otherwise, and so a take-profit on the side of the entry
\* opposite to the stop.
TakeProfitPlacement ==
    (ret.op = "calculateTakeProfit" /\ ret.stopLoss # ret.entryPrice) =>
        LET difference == FAdd(ret.entryPrice, FNeg(ret.stopLoss))
            reward     == FMul(Frac(Abs(difference.n), difference.d), ret.args[1])
            above      == FLess(ret.stopLoss, ret.entryPrice)
        IN  /\ ret.result = FAdd(ret.entryPrice, IF above THEN reward ELSE FNeg(reward))
            /\ IF above THEN FLess(ret.entryPrice, ret.result)
               ELSE FLess(ret.result, ret.entryPrice)

\* C27: calculatePositionSize returns a whole number q >= 0 of hundredths of
\* a coin whose value q * entryPrice is at most 2.5% of the balance, hence
\* at most the 10% of validateTrade, and 0 when entryPrice equals stopLoss
\* or is 0.
PositionSizeCap ==
    ret.op = "calculatePositionSize" =>
        /\ ret.result \in Nat
        /\ ret.result * ret.entryPrice * 40 <= accountBalance
        /\ ret.result * ret.entryPrice * 100 <= accountBalance * maxNotionalPct
        /\ (ret.entryPrice = ret.stopLoss \/ ret.entryPrice = 0) => ret.result = 0

\* C27 witness: the cap decides the size of a trade with a stop one dollar
\* from the entry
SizeCapped ==
    /\ ret.op = "calculatePositionSize"
    /\ ret.entryPrice = 200
    /\ ret.stopLoss = 199
    /\ ret.result * ret.entryPrice * 40 = accountBalance

(***************************************************************************)
(* BayesianLearning called directly: recordOutcome, estimateSuccessRate    *)
(* and updateWeights on the counters of a new estimator.                   *)
(***************************************************************************)
\* outcomes recorded
MaxOutcomes == 10

\* the motifs outcomes are recorded for
RecordedMotifs == {"trend", "momentum"}

LearnFrame ==
    UNCHANGED <<riskVars, fired, pending, ensembleVars, botVars>>

BayesRecordOutcome ==
    \E motifType \in RecordedMotifs, success \in BOOLEAN :
        /\ calls < MaxOutcomes
        /\ calls' = calls + 1
        /\ successCounts' = IF success THEN RecordOutcome(successCounts, motifType)
                            ELSE successCounts
        /\ failureCounts' = IF success THEN failureCounts
                            ELSE RecordOutcome(failureCounts, motifType)
        /\ ret' = [op |-> "recordOutcome", motifType |-> motifType, success |-> success]
        /\ UNCHANGED <<transitions, qValues>>
        /\ LearnFrame

BayesEstimateSuccessRate ==
    \E motifType \in MotifTypes :
        /\ ret' = [op |-> "estimateSuccessRate", motifType |-> motifType,
                   result |-> EstimateSuccessRate(successCounts, failureCounts, motifType)]
        /\ UNCHANGED <<calls, learnVars>>
        /\ LearnFrame

BayesUpdateWeightsCall ==
    /\ ret' = [op |-> "updateWeights",
               result |-> BayesUpdateWeights(successCounts, failureCounts)]
    /\ UNCHANGED <<calls, learnVars>>
    /\ LearnFrame

NextBayes ==
    \/ BayesRecordOutcome
    \/ BayesEstimateSuccessRate
    \/ BayesUpdateWeightsCall

SpecBayes == Init /\ [][NextBayes]_vars

\* C28: estimateSuccessRate(m) is (1 + s_m) / (2 + s_m + f_m);
\* recordOutcome(m, .) adds one to one counter of m and changes no other
\* counter; updateWeights() returns four weights, each > 0, that sum to 1 and
\* are in the ratios of the estimated success rates.
BayesianEstimator ==
    /\ [][/\ ret'.op = "estimateSuccessRate" =>
                LET m == ret'.motifType
                IN  /\ ret'.result.n * (2 + successCounts[m] + failureCounts[m])
                           = ret'.result.d * (1 + successCounts[m])
                    /\ ret'.result.d > 0
          /\ ret'.op = "recordOutcome" =>
                LET m == ret'.motifType
                IN  /\ successCounts'[m] + failureCounts'[m]
                           = successCounts[m] + failureCounts[m] + 1
                    /\ IF ret'.success THEN failureCounts' = failureCounts
                       ELSE successCounts' = successCounts
                    /\ \A o \in MotifTypes \ {m} :
                           /\ successCounts'[o] = successCounts[o]
                           /\ failureCounts'[o] = failureCounts[o]
          /\ ret'.op = "updateWeights" =>
                LET w == ret'.result
                IN  /\ \A m \in MotifTypes : FLess(Frac(0, 1), w[m])
                    /\ SumWeights(w) = Frac(1, 1)
                    /\ \A m, o \in MotifTypes :
                           w[m].n * w[o].d * (1 + successCounts[o])
                                 * (2 + successCounts[m] + failureCounts[m])
                             = w[o].n * w[m].d * (1 + successCounts[m])
                                 * (2 + successCounts[o] + failureCounts[o])]_vars

\* C28 witness: after 10 successes and no failure of trend its estimated
\* rate is 11/12
TenSuccessesEstimated ==
    /\ ret.op = "estimateSuccessRate"
    /\ ret.motifType = "trend"
    /\ successCounts["trend"] = 10
    /\ failureCounts["trend"] = 0
    /\ ret.result = Frac(11, 12)

(***************************************************************************)
(* QLearning.recordReward called directly on a new table.                  *)
(***************************************************************************)
\* rewards recorded
MaxRewards == 2

QStates == {"NEUTRAL", "UPTREND"}

\* -1 and 1
Rewards == {Frac(-1, 1), Frac(1, 1)}

QRecordReward ==
    \E state \in QStates, action \in QActions, reward \in Rewards, nextState \in QStates :
        /\ calls < MaxRewards
        /\ calls' = calls + 1
        /\ qValues' = RecordReward(qValues, state, action, reward, nextState)
        /\ ret' = [op |-> "recordReward", state |-> state, action |-> action,
                   reward |-> reward, nextState |-> nextState]
        /\ UNCHANGED <<successCounts, failureCounts, transitions>>
        /\ LearnFrame

NextQ ==
    QRecordReward

SpecQ == Init /\ [][NextQ]_vars

\* the entry of <<state, action>>, 0 when the table has none
QEntry(q, state, action) ==
    IF <<state, action>> \in DOMAIN q THEN q[<<state, action>>] ELSE Frac(0, 1)

\* C29: recordReward(s, a, r, s2) adds to Q(s, a) a tenth of
\* r + 0.95 * (the largest of Q(s2, LONG), Q(s2, SHORT), Q(s2, NEUTRAL),
\* Q(s2, REDUCE_POSITION)) - Q(s, a), entries the table lacks read as 0, and
\* leaves every other entry as it was.
QLearningUpdate ==
    [][ret'.op = "recordReward" =>
          LET k    == <<ret'.state, ret'.action>>
              old  == QEntry(qValues, ret'.state, ret'.action)
              next == {QEntry(qValues, ret'.nextState, a) :
                          a \in {"LONG", "SHORT", "NEUTRAL", "REDUCE_POSITION"}}
          IN  /\ DOMAIN qValues' = DOMAIN qValues \cup {k}
              /\ \A x \in DOMAIN qValues \ {k} : qValues'[x] = qValues[x]
              /\ \E best \in next :
                    /\ \A v \in next : ~FLess(best, v)
                    /\ FMul(Frac(10, 1), FAdd(qValues'[k], FNeg(old)))
                         = FAdd(FAdd(ret'.reward, FMul(Frac(95, 100), best)), FNeg(old))]_vars

\* C29 witness: recordReward('NEUTRAL', 'LONG', 1.0, 'NEUTRAL') on the empty
\* table leaves Q(NEUTRAL, LONG) = 0.1
FirstRewardRecorded ==
    /\ ret.op = "recordReward"
    /\ ret.state = "NEUTRAL" /\ ret.action = "LONG"
    /\ ret.reward = Frac(1, 1) /\ ret.nextState = "NEUTRAL"
    /\ calls = 1
    /\ qValues[<<"NEUTRAL", "LONG">>] = Frac(1, 10)

(***************************************************************************)
(* AdaptiveLearningEngine.recordTradeOutcome called directly on a new      *)
(* engine.                                                                 *)
(***************************************************************************)
\* outcomes passed to the engine
MaxTradeOutcomes == 2

LearnRecordTradeOutcome ==
    \E motifType \in RecordedMotifs, success \in BOOLEAN, currentState \in QStates,
       nextState \in QStates, reward \in Rewards :
        LET e == LearnTradeOutcome(
                     [successCounts |-> successCounts, failureCounts |-> failureCounts,
                      transitions |-> transitions, qValues |-> qValues],
                     motifType, success, currentState, nextState, reward)
        IN  /\ calls < MaxTradeOutcomes
            /\ calls' = calls + 1
            /\ successCounts' = e.successCounts
            /\ failureCounts' = e.failureCounts
            /\ transitions' = e.transitions
            /\ qValues' = e.qValues
            /\ ret' = [op |-> "recordTradeOutcome", motifType |-> motifType,
                       success |-> success, currentState |-> currentState,
                       nextState |-> nextState, reward |-> reward]
            /\ LearnFrame

GetUpdatedWeights ==
    /\ ret' = [op |-> "getUpdatedWeights",
               result |-> BayesUpdateWeights(successCounts, failureCounts)]
    /\ UNCHANGED <<calls, learnVars>>
    /\ LearnFrame

NextLearning ==
    \/ LearnRecordTradeOutcome
    \/ GetUpdatedWeights

SpecLearning == Init /\ [][NextLearning]_vars

\* the sum of the counts of a transition table
RECURSIVE TransitionTotal(_)
TransitionTotal(table) ==
    IF DOMAIN table = {} THEN 0
    ELSE LET k == CHOOSE x \in DOMAIN table : TRUE
         IN  table[k] + TransitionTotal([x \in DOMAIN table \ {k} |-> table[x]])

\* C30: every recordTradeOutcome call of the learning engine adds one to one
\* Bayesian counter, adds one to one transition count and writes one Q-table
\* entry; after n calls the successes and failures together, and the
\* transition counts together, are n.
LearningFanOut ==
    /\ [][ret'.op = "recordTradeOutcome" =>
             LET m == ret'.motifType
                 t == <<ret'.currentState, ret'.nextState>>
             IN  /\ CountTotal(successCounts') + CountTotal(failureCounts')
                       = CountTotal(successCounts) + CountTotal(failureCounts) + 1
                 /\ successCounts'[m] + failureCounts'[m]
                       = successCounts[m] + failureCounts[m] + 1
                 /\ DOMAIN transitions' = DOMAIN transitions \cup {t}
                 /\ transitions'[t] = (IF t \in DOMAIN transitions THEN transitions[t] ELSE 0) + 1
                 /\ \A x \in DOMAIN transitions \ {t} : transitions'[x] = transitions[x]
                 /\ \E k \in DOMAIN qValues' :
                       /\ k[1] = ret'.currentState
                       /\ DOMAIN qValues' = DOMAIN qValues \cup {k}
                       /\ \A x \in DOMAIN qValues \ {k} : qValues'[x] = qValues[x]]_vars
    /\ [](/\ CountTotal(successCounts) + CountTotal(failureCounts) = calls
          /\ TransitionTotal(transitions) = calls)

\* C30 witness: two outcomes recorded, a success and a failure, with two
\* transitions counted
TwoOutcomesLearned ==
    /\ ret.op = "recordTradeOutcome"
    /\ calls = 2
    /\ CountTotal(successCounts) = 1
    /\ CountTotal(failureCounts) = 1
    /\ TransitionTotal(transitions) = 2

(***************************************************************************)
(* MarkovChain.getPriceState on signals and volatilities around its        *)
(* thresholds.                                                             *)
(***************************************************************************)
\* hundredths
PriceStateSignals ==
    {0, 10, 19, 20, 21, 34, 35, 36, 50, 64, 65, 66, 79, 80, 81, 90, 100}

PriceStateVolatilities ==
    {0, 30, 49, 50, 51, 70, 100}

\* the if-chain of getPriceState, first match first
GetPriceState(signal, volatility) ==
    IF FLess(Frac(8, 10), signal) /\ FLess(volatility, Half) THEN "UPTRENDSTRONG"
    ELSE IF FLess(Frac(65, 100), signal) THEN "UPTREND"
    ELSE IF FLess(Frac(35, 100), signal) /\ FLess(signal, Frac(65, 100)) THEN "NEUTRAL"
    ELSE IF FLess(signal, Frac(35, 100)) THEN "DOWNTREND"
    ELSE IF FLess(signal, Frac(2, 10)) THEN "DOWNTRENDSTRONG"
    ELSE "NEUTRAL"

GetPriceStateCall ==
    /\ \E s \in PriceStateSignals, v \in PriceStateVolatilities :
          ret' = [op |-> "getPriceState", signal |-> Frac(s, 100), volatility |-> Frac(v, 100),
                  state |-> GetPriceState(Frac(s, 100), Frac(v, 100))]
    /\ UNCHANGED <<riskVars, calls, fired, pending, ensembleVars, learnVars, botVars>>

NextPriceState == GetPriceStateCall

SpecPriceState == Init /\ [][NextPriceState]_vars

\* C31: getPriceState(s, v) is UPTRENDSTRONG when s > 0.8 and v < 0.5,
\* otherwise UPTREND when s > 0.65, NEUTRAL for 0.35 < s < 0.65, DOWNTREND for
\* 0.2 <= s < 0.35 and DOWNTRENDSTRONG for s < 0.2; v changes the result only
\* when s > 0.8.
PriceStateBuckets ==
    ret.op = "getPriceState" =>
        LET s == ret.signal
            v == ret.volatility
        IN  /\ (10 * s.n > 8 * s.d /\ 2 * v.n < v.d) => ret.state = "UPTRENDSTRONG"
            /\ (100 * s.n > 65 * s.d /\ ~(10 * s.n > 8 * s.d /\ 2 * v.n < v.d)) =>
                   ret.state = "UPTREND"
            /\ (100 * s.n > 35 * s.d /\ 100 * s.n < 65 * s.d) => ret.state = "NEUTRAL"
            /\ (10 * s.n >= 2 * s.d /\ 100 * s.n < 35 * s.d) => ret.state = "DOWNTREND"
            /\ 10 * s.n < 2 * s.d => ret.state = "DOWNTRENDSTRONG"
            /\ 10 * s.n <= 8 * s.d =>
                   \A u \in PriceStateVolatilities :
                       GetPriceState(s, Frac(u, 100)) = ret.state

(***************************************************************************)
(* StrategyEngine.analyzeAndDecide called for two symbols: the price       *)
(* history of each.                                                        *)
(***************************************************************************)
\* fetches for the bot's symbol, and for the second symbol
MaxFetches == 202

MaxOtherFetches == 2

\* priceHistory.get(symbol)
HistoryOf(symbol) ==
    IF symbol = BotSymbol THEN priceHistory ELSE otherHistory

\* the current prices the next fetch for symbol can return: 200 or 230 at
\* first, then a price not seen before
FeedPrices(symbol) ==
    LET k == Len(fetchLog[symbol])
    IN  IF k = 0 THEN {200, 230} ELSE {1000 + k}

\* analyzeAndDecide(symbol); the caller drops the decision
AnalyzeAndDecide ==
    \E symbol \in HistorySymbols :
        /\ Len(fetchLog[symbol]) < (IF symbol = BotSymbol THEN MaxFetches ELSE MaxOtherFetches)
        /\ \/ /\ ret' = [op |-> "analyzeAndDecide", symbol |-> symbol, isNull |-> TRUE]
              /\ UNCHANGED <<calls, priceHistory, otherHistory, fetchLog>>
           \/ \E currentPrice \in FeedPrices(symbol) :
                LET marketData == [currentPrice |-> currentPrice, atr14 |-> 25,
                                   reading |-> "none"]
                IN  /\ calls' = calls + 1
                    /\ priceHistory' = IF symbol = BotSymbol
                                       THEN PushPrice(priceHistory, currentPrice)
                                       ELSE priceHistory
                    /\ otherHistory' = IF symbol = BotSymbol
                                       THEN otherHistory
                                       ELSE PushPrice(otherHistory, currentPrice)
                    /\ fetchLog' = [fetchLog EXCEPT ![symbol] = Append(@, currentPrice)]
                    /\ ret' = [op |-> "analyzeAndDecide", symbol |-> symbol, isNull |-> FALSE,
                               decision |-> AnalyzeAndDecideOp(Engine, marketData)]
        /\ UNCHANGED <<riskVars, fired, pending, ensembleVars, learnVars, isRunning, tradingLoop,
                       cycles, decisionsCount, tradesCount, errors, configVars, started, stops,
                       orphanTimers, clientVars, ensembleWeights, motifPatterns, multiBotVars>>

NextHistory == AnalyzeAndDecide

SpecHistory == Init /\ [][NextHistory]_vars

\* C32: the price history of each symbol holds at most 200 prices, the most
\* recent min(n, 200) of the n current prices fetched for the symbol, oldest
\* first; analyzeAndDecide for one symbol leaves the history of the other as
\* it was.
BoundedPriceHistory ==
    /\ [](\A symbol \in HistorySymbols :
            LET n == Len(fetchLog[symbol])
                m == IF n < 200 THEN n ELSE 200
            IN  /\ Len(HistoryOf(symbol)) <= 200
                /\ HistoryOf(symbol) = SubSeq(fetchLog[symbol], n - m + 1, n))
    /\ [][ret'.op = "analyzeAndDecide" =>
            /\ ret'.symbol = BotSymbol => otherHistory' = otherHistory
            /\ ret'.symbol # BotSymbol => priceHistory' = priceHistory]_vars

\* C32 witness: 202 prices were fetched for the bot's symbol and its history
\* starts at the third of them, with two prices in the other history
OldestPricesEvicted ==
    /\ ret.op = "analyzeAndDecide"
    /\ Len(fetchLog[BotSymbol]) = 202
    /\ Len(priceHistory) = 200
    /\ priceHistory[1] = fetchLog[BotSymbol][3]
    /\ Len(otherHistory) = 2

(***************************************************************************)
(* EnsembleStrategyEngine: addMotif and mutateMotifsForCoin on the         *)
(* weights initializeMarkets sets, on exact fractions.                     *)
(***************************************************************************)
\* addMotif and mutateMotifsForCoin calls
MaxEnsembleCalls == 3

\* the strategies motifs are registered for
MotifStrategies == {"TREND", "VOLATILITY"}

\* 0.69, which a mutation factor of 0.025 takes past 0.7, and 0.8
MotifPerformances ==
    {Frac(69, 100), Frac(4, 5)}

\* what 0.05 * Math.random() can be: 0 and 0.025
MutationFactors == {Frac(0, 1), Frac(1, 40)}

\* Object.values(weights).reduce((a, b) => a + b, 0)
TotalWeight(w) ==
    FAdd(FAdd(FAdd(w["TREND"], w["VOLATILITY"]), w["EVENT_DRIVEN"]), w["ML_PREDICTION"])

\* the loop of mutateMotifsForCoin from motif i on: w are the weights of
\* symbol, factors[i] the mutation factor drawn for motif i
RECURSIVE MutateMotifs(_, _, _, _, _)
MutateMotifs(w, motifs, symbol, factors, i) ==
    IF i > Len(motifs) THEN [weights |-> w, motifs |-> motifs]
    ELSE IF motifs[i].symbol # symbol THEN MutateMotifs(w, motifs, symbol, factors, i + 1)
    ELSE LET performance == FMul(motifs[i].performance, FAdd(Frac(1, 1), factors[i]))
             mutated == [motifs EXCEPT ![i].mutations = @ + 1,
                                       ![i].performance = performance]
             boosted == IF FBelow(Frac(7, 10), performance)
                        THEN [w EXCEPT ![motifs[i].strategy] = FMul(@, Frac(11, 10))]
                        ELSE w
         IN  MutateMotifs(boosted, mutated, symbol, factors, i + 1)

\* MutateMotifsForCoinOp without the division by the total weight
MutateMotifsForCoinOp_NotNormalized(all, motifs, symbol, factors) ==
    LET looped == MutateMotifs(all[symbol], motifs, symbol, factors, 1)
    IN  [weights |-> [all EXCEPT ![symbol] = looped.weights], motifs |-> looped.motifs]

\* mutateMotifsForCoin(symbol)
MutateMotifsForCoinOp(all, motifs, symbol, factors) ==
    LET looped == MutateMotifs(all[symbol], motifs, symbol, factors, 1)
        totalWeight == TotalWeight(looped.weights)
    IN  [weights |-> [all EXCEPT ![symbol] =
                         [t \in StrategyTypes |-> FDiv(looped.weights[t], totalWeight)]],
         motifs  |-> looped.motifs]

EnsembleFrame ==
    /\ calls < MaxEnsembleCalls
    /\ calls' = calls + 1
    /\ UNCHANGED <<riskVars, fired, pending, ensembleVars, learnVars, priceHistory, isRunning,
                   tradingLoop, cycles, decisionsCount, tradesCount, errors, configVars,
                   started, stops, orphanTimers, clientVars, otherHistory, fetchLog,
                   multiBotVars>>

AddMotif ==
    \E symbol \in Markets, strategy \in MotifStrategies, performance \in MotifPerformances :
        /\ EnsembleFrame
        /\ motifPatterns' = Append(motifPatterns,
                                   [symbol |-> symbol, strategy |-> strategy,
                                    performance |-> performance, mutations |-> 0])
        /\ ret' = [op |-> "addMotif"]
        /\ UNCHANGED ensembleWeights

MutateMotifsForCoin ==
    \E symbol \in Markets, factors \in [1..Len(motifPatterns) -> MutationFactors] :
        \E r \in {MutateMotifsForCoinOp(ensembleWeights, motifPatterns, symbol, factors)} :
            /\ EnsembleFrame
            /\ ensembleWeights' = r.weights
            /\ motifPatterns' = r.motifs
            /\ ret' = [op |-> "mutateMotifsForCoin", symbol |-> symbol]

NextEnsemble ==
    \/ AddMotif
    \/ MutateMotifsForCoin

SpecEnsemble == Init /\ [][NextEnsemble]_vars

\* C33: after mutateMotifsForCoin(symbol) the four weights of symbol are all
\* > 0 and sum to 1, and the weights of every other symbol are as they were.
EnsembleWeightsNormalized ==
    [][ret'.op = "mutateMotifsForCoin" =>
          /\ \A t \in StrategyTypes :
                FLess(Frac(0, 1), ensembleWeights'[ret'.symbol][t])
          /\ TotalWeight(ensembleWeights'[ret'.symbol]) = Frac(1, 1)
          /\ \A o \in Markets \ {ret'.symbol} :
                ensembleWeights'[o] = ensembleWeights[o]]_vars

\* C33 witness: a motif of ETHUSDT past 0.7 raised the TREND weight of
\* ETHUSDT above a quarter, with the weights of BTCUSDT still at a quarter
TrendWeightBoosted ==
    /\ ret.op = "mutateMotifsForCoin"
    /\ ret.symbol = "ETHUSDT"
    /\ FLess(Frac(1, 4), ensembleWeights["ETHUSDT"]["TREND"])
    /\ \A t \in StrategyTypes : ensembleWeights["BTCUSDT"][t] = Frac(1, 4)

\* C36: in a TradingBot cycle whose fetch returned market data, a position
\* of the book whose profit target is not reached at the fetched price
\* (checkProfitTargets returns shouldClose = false) is still in the book after
\* the position checks, and when no position of the book is at its target the
\* checks change neither the balance nor the outcomes the learning engine has
\* recorded.
RegularUpdateKeepsPosition ==
    [][(/\ ret'.op = "executeTradingCycle"
        /\ ret'.step = "fetch"
        /\ ~ret'.noData
        /\ ret'.outcome # "threw") =>
          \E marketData \in MarketDatas :
              LET below(k) == ~CheckProfitTargetsOp(portfolio, KeyOf(portfolio[k]),
                                                   marketData.currentPrice).shouldClose
              IN  /\ \A k \in 1..Len(portfolio) :
                         below(k) => IndexOf(portfolio', KeyOf(portfolio[k])) # 0
                  /\ (\A k \in 1..Len(portfolio) : below(k)) =>
                         /\ accountBalance' = accountBalance
                         /\ successCounts' = successCounts
                         /\ failureCounts' = failureCounts]_vars

(***************************************************************************)
(* The trade history against the balance: positions are opened, closed in  *)
(* part or in full, and supervised; the balance changes by closes only.    *)
(***************************************************************************)
NextLedger ==
    \/ OpenPosition
    \/ ClosePosition
    \/ UpdatePosition

SpecLedger ==
    Init /\ [][NextLedger]_vars

\* C35: whenever the position book is empty, accountBalance minus the initial
\* balance is the sum of pnl over the trade-history records, and the quantity
\* of every history record is the quantity its position was opened with, also
\* for a position closed in part before its final close.
HistoryAccountsForBalance ==
    /\ portfolio = <<>> => accountBalance - basis = SumPnl(tradeHistory)
    /\ \A h \in 1..Len(tradeHistory) :
           tradeHistory[h].position.quantity = openLog[tradeHistory[h].position.uid].quantity

(***************************************************************************)
(* MultiStrategyTradingBot: its cycles over the top coins of the market    *)
(* rotation, one coin at a time, and the positions executeTrade records.   *)
(***************************************************************************)
\* cycles of the multi-strategy bot explored
MaxMultiCycles == 2

\* config.maxConcurrentPositions, as the constructor takes it from its argument
\* (5 when none is given)
MaxConcurrentPositions == 2

\* MARKETS in the order fetchMarketData inserts them into marketData
MarketOrder ==
    <<"BTCUSDT", "ETHUSDT">>

\* what getMarketStats draws for a market: volatility in [0, 0.1), volume24h
\* in millions of dollars
MarketStats ==
    {[volatility |-> Frac(0, 1), volume24h |-> 900],
     [volatility |-> Frac(1, 20), volume24h |-> 200]}

\* Math.min and Math.max on finite numbers
FMin(x, y) ==
    IF FLess(y, x) THEN y ELSE x

FMax(x, y) ==
    IF FLess(x, y) THEN y ELSE x

\* calculateLiquidity(volume24h, volatility)
CalculateLiquidity(volume24h, volatility) ==
    LET volumeScore     == FMin(Frac(volume24h, 1000), Frac(1, 1))
        volatilityScore == FMax(FAdd(Frac(1, 1), FNeg(FMul(volatility, Frac(10, 1)))),
                                Frac(0, 1))
    IN  FAdd(FMul(volumeScore, Frac(7, 10)), FMul(volatilityScore, Frac(3, 10)))

\* sort((a, b) => b.liquidityScore - a.liquidityScore): a stable sort, highest
\* score first
RECURSIVE InsertCoin(_, _)
InsertCoin(sorted, coin) ==
    IF sorted = <<>> THEN <<coin>>
    ELSE IF FLess(Head(sorted).liquidityScore, coin.liquidityScore)
    THEN <<coin>> \o sorted
    ELSE <<Head(sorted)>> \o InsertCoin(Tail(sorted), coin)

RECURSIVE SortByLiquidity(_)
SortByLiquidity(data) ==
    IF data = <<>> THEN <<>>
    ELSE InsertCoin(SortByLiquidity(SubSeq(data, 1, Len(data) - 1)), data[Len(data)])

\* getTopCoins(count) on the market data fetchMarketData stored
GetTopCoins(data, count) ==
    LET sorted == SortByLiquidity(data)
    IN  SubSeq(sorted, 1, Min(count, Len(sorted)))

\* calculateDynamicRisk(symbol, volatility, portfolioSize)
CalculateDynamicRisk(symbol, volatility) ==
    LET volatilityRatio  == FMin(FDiv(volatility, Frac(1, 10)), Frac(2, 1))
        positionFactor   == FDiv(Frac(1, 1), FAdd(Frac(1, 1), volatilityRatio))
        maxPosition      == FMul(Frac(1, 10), positionFactor)
        stopLossFactor   == FMin(FMul(Frac(1, 20), FAdd(Frac(1, 1), volatilityRatio)),
                                 Frac(3, 20))
        takeProfitFactor == FMul(Frac(1, 10),
                                 FAdd(Frac(1, 1), FMul(volatilityRatio, Half)))
    IN  [symbol |-> symbol, volatility |-> volatility, maxPositionSize |-> maxPosition,
         stopLossPercentage |-> stopLossFactor, takeProfitPercentage |-> takeProfitFactor,
         allocation |-> maxPosition]

\* what makeEnsembleDecision resolves to for a symbol: null when there are no
\* signals, else a signal with the price of the first signal; BUY and SELL
\* come with a confidence above 0.4
NullDecision ==
    [action |-> "null"]

EnsembleConfidences ==
    {Frac(45, 100), Frac(4, 5)}

EnsemblePrices ==
    {200}

EnsembleDecisions(symbol) ==
    {NullDecision}
    \cup {[symbol |-> symbol, action |-> "HOLD", confidence |-> Frac(3, 10), price |-> price] :
              price \in EnsemblePrices}
    \cup {[symbol |-> symbol, action |-> action, confidence |-> confidence, price |-> price] :
              action \in {"BUY", "SELL"}, confidence \in EnsembleConfidences,
              price \in EnsemblePrices}

\* openPositions.set(positionId, position)
SetOpenPosition(positions, position) ==
    IF \E k \in 1..Len(positions) : positions[k].positionId = position.positionId
    THEN [k \in 1..Len(positions) |->
             IF positions[k].positionId = position.positionId THEN position ELSE positions[k]]
    ELSE Append(positions, position)

\* the position executeTrade records: [positions, update]
ExecuteTradeOp(positions, symbol, signal, riskConfig, timestamp) ==
    LET price    == Frac(signal.price, 1)
        position == [positionId |-> <<symbol, timestamp>>,
                     symbol |-> symbol,
                     action |-> signal.action,
                     entryPrice |-> price,
                     stopLoss |-> FMul(price, FAdd(Frac(1, 1),
                                                   FNeg(riskConfig.stopLossPercentage))),
                     takeProfit |-> FMul(price, FAdd(Frac(1, 1),
                                                     riskConfig.takeProfitPercentage)),
                     size |-> riskConfig.maxPositionSize]
        state    == <<symbol, IF FLess(Frac(7, 10), signal.confidence) THEN "HIGH" ELSE "LOW">>
        reward   == IF FLess(Half, signal.confidence) THEN Frac(1, 1) ELSE Frac(-1, 2)
    IN  [positions |-> SetOpenPosition(positions, position),
         update    |-> [state |-> state, action |-> signal.action, reward |-> reward]]

MultiFrame ==
    UNCHANGED <<portfolio, accountBalance, tradeHistory, openLog, basis, pnlSum, realizedQty,
                calls, fired, pending, ensembleVars, learnVars, priceHistory, isRunning,
                tradingLoop, cycles, decisionsCount, tradesCount, errors, configVars, started,
                stops, orphanTimers, clientVars, otherHistory, fetchLog>>

\* executeTradingCycle up to its first coin: fetchMarketData and getTopCoins.
\* A cycle starts a check interval after the one before it, and Date.now() is
\* read as the millisecond the cycle started in.
MultiBeginCycle ==
    /\ coinsLeft = <<>>
    /\ multiCounts.cycles < MaxMultiCycles
    /\ \E stats \in [1..Len(MarketOrder) -> MarketStats] :
        LET marketData == [k \in 1..Len(MarketOrder) |->
                              [symbol |-> MarketOrder[k],
                               volatility |-> stats[k].volatility,
                               liquidityScore |-> CalculateLiquidity(stats[k].volume24h,
                                                                     stats[k].volatility)]]
        IN  coinsLeft' = GetTopCoins(marketData, MaxConcurrentPositions)
    /\ multiCounts' = [multiCounts EXCEPT !.cycles = @ + 1]
    /\ now' = now + 1
    /\ ret' = [op |-> "multiCycle", step |-> "begin"]
    /\ MultiFrame
    /\ UNCHANGED <<openPositions, agentUpdates, ensembleWeights, motifPatterns>>

\* the body of the cycle's loop for its next coin
MultiProcessCoin ==
    /\ coinsLeft # <<>>
    /\ \E ensembleDecision \in EnsembleDecisions(Head(coinsLeft).symbol),
          timestamp \in {now},
          factors \in [1..Len(motifPatterns) -> MutationFactors] :
        LET coin   == Head(coinsLeft)
            symbol == coin.symbol
        IN  /\ IF ensembleDecision # NullDecision /\ ensembleDecision.action # "HOLD"
               THEN LET riskConfig == CalculateDynamicRisk(symbol, coin.volatility)
                        x == ExecuteTradeOp(openPositions, symbol, ensembleDecision,
                                            riskConfig, timestamp)
                        m == MutateMotifsForCoinOp(ensembleWeights, motifPatterns, symbol,
                                                   factors)
                    IN  /\ openPositions' = x.positions
                        /\ agentUpdates' = Append(agentUpdates, x.update)
                        /\ multiCounts' = [multiCounts EXCEPT !.decisionsCount = @ + 1,
                                                              !.tradesCount = @ + 1]
                        /\ ensembleWeights' = m.weights
                        /\ motifPatterns' = m.motifs
                        /\ now' = timestamp
               ELSE UNCHANGED <<openPositions, agentUpdates, multiCounts, ensembleWeights,
                                motifPatterns, now>>
            /\ ret' = [op |-> "multiCycle", step |-> "coin", symbol |-> symbol,
                       action |-> ensembleDecision.action]
    /\ coinsLeft' = Tail(coinsLeft)
    /\ MultiFrame

NextMulti ==
    \/ MultiBeginCycle
    \/ MultiProcessCoin

SpecMulti ==
    Init /\ [][NextMulti]_vars

\* C37: in every reachable state of MultiStrategyTradingBot the number of
\* entries of openPositions is at most config.maxConcurrentPositions, over
\* any number of trading cycles.
ConcurrentPositionsCapped ==
    Len(openPositions) <= MaxConcurrentPositions

\* C38: every position executeTrade has recorded has its stop-loss on the
\* loss side and its take-profit on the profit side of its entry price:
\* stopLoss < entryPrice < takeProfit for BUY, takeProfit < entryPrice <
\* stopLoss for SELL.
StopsOnTheirSides ==
    \A k \in 1..Len(openPositions) :
        LET p == openPositions[k]
        IN  IF p.action = "BUY"
            THEN FLess(p.stopLoss, p.entryPrice) /\ FLess(p.entryPrice, p.takeProfit)
            ELSE FLess(p.takeProfit, p.entryPrice) /\ FLess(p.entryPrice, p.stopLoss)

====
